---------------------------- MODULE Spec2Model ----------------------------
(***************************************************************************)
(* gemini-diagram-mcp: the centralized HTTP server (http.ts), the          *)
(* per-connection tool dispatcher (mcp.ts, createGeminiDiagramServer) and  *)
(* the prompt analyzer and generation client (gemini/client.ts).           *)
(*                                                                         *)
(* JavaScript strings are TLA+ strings; `undefined` and `null` are the     *)
(* empty sequence and a present value v is <<v>>, so that an optional      *)
(* field is always a sequence of length 0 or 1.                            *)
(***************************************************************************)
EXTENDS Integers, Sequences, FiniteSets, Bags, TLC

Undefined == <<>>

Some(v) == <<v>>

IsDefined(o) == o # <<>>

(***************************************************************************)
(* Bounds of the model and the inputs it draws.                            *)
(***************************************************************************)
\* Transports the server constructs in one run.
MaxSessions == 2

\* Tool calls suspended on the generation service at one time.
MaxInFlight == 2

\* Refinements accumulated in one stored prompt before refine_image stops
\* being called on it.
MaxRefinements == 1

\* Signals delivered to the process.
MaxSignals == 1

\* randomUUID() values, in the order the run draws them for session ids.
IdPool ==
    <<"6f1c2c1e-0d1b-4b7e-9a57-2f3f0c9d1a01", "b0a4b1c2-7c55-4e0a-8f1e-5d2a9e7c3b02",
      "c9d8e7f6-1a2b-4c3d-8e4f-5a6b7c8d9e03", "d1e2f3a4-b5c6-4d7e-8f90-a1b2c3d4e504">>

SessionIds == {IdPool[i] : i \in 1..MaxSessions}

\* randomUUID().slice(0, 8) values drawn for file names.
Uuid8s == {"0a1b2c3d"}

\* Arguments of generate_image: a prompt that classifies "low" with and
\* without an explicit type, and one that classifies "medium" with an output
\* hint that names a parent directory.
GenerateArgs ==
    {[prompt |-> "data flow", output |-> Undefined, type |-> "auto",
      aspect_ratio |-> Undefined, size |-> "2K"],
     [prompt |-> "data flow", output |-> Undefined, type |-> "chart",
      aspect_ratio |-> Undefined, size |-> "2K"],
     [prompt |-> "Org chart", output |-> Some("../team"), type |-> "auto",
      aspect_ratio |-> Some("1:1"), size |-> "2K"]}

RefineArgs == {[refinement |-> "make it blue"]}

NoCredential == [authorization |-> Undefined, queryToken |-> Undefined]

ValidCredential == [authorization |-> Some("Bearer s3cret"), queryToken |-> Undefined]

Credentials ==
    {NoCredential, ValidCredential,
     [authorization |-> Some("Bearer wrong"), queryToken |-> Some("s3cret")]}

Filenames == {"team.png", "../secret.png", "/etc/passwd", ".."}

\* process.env at startup: static-token mode with a token, and without one.
Environments ==
    {[GEMINI_API_KEY |-> Some("key"), MCP_AUTH_MODE |-> Undefined,
      MCP_AUTH_TOKEN |-> Some("s3cret"), MCP_AUTH_TOKENS |-> Undefined,
      MCP_ALLOW_QUERY_TOKEN |-> Undefined, OIDC_ISSUER |-> Undefined],
     [GEMINI_API_KEY |-> Some("key"), MCP_AUTH_MODE |-> Some("token"),
      MCP_AUTH_TOKEN |-> Undefined, MCP_AUTH_TOKENS |-> Undefined,
      MCP_ALLOW_QUERY_TOKEN |-> Undefined, OIDC_ISSUER |-> Undefined]}

OUTPUT_DIR == "/data/out"

PUBLIC_BASE_URL == "http://localhost:3000"

\* The options http.ts passes to createGeminiDiagramServer.
HttpServerOptions ==
    [outputDir |-> OUTPUT_DIR, publicBaseUrl |-> Some(PUBLIC_BASE_URL),
     allowAbsoluteOutput |-> FALSE, allowSubdirsInOutput |-> FALSE]

(***************************************************************************)
(* String helpers (String.prototype.includes, toLowerCase, endsWith,       *)
(* split(" ").length, Array.prototype.join).                               *)
(***************************************************************************)
CharAt(s, i) == SubSeq(s, i, i)

Includes(s, k) ==
    \E i \in 1..(Len(s) - Len(k) + 1) : SubSeq(s, i, i + Len(k) - 1) = k

EndsWith(s, k) ==
    Len(s) >= Len(k) /\ SubSeq(s, Len(s) - Len(k) + 1, Len(s)) = k

UPPER_CHARS == "ABCDEFGHIJKLMNOPQRSTUVWXYZ"

LOWER_CHARS == "abcdefghijklmnopqrstuvwxyz"

\* The lower-case letter of each upper-case one.
LOWER_OF ==
    [c \in {CharAt(UPPER_CHARS, i) : i \in 1..Len(UPPER_CHARS)} |->
        CharAt(LOWER_CHARS, CHOOSE i \in 1..Len(UPPER_CHARS) : CharAt(UPPER_CHARS, i) = c)]

LowerChar(c) == IF c \in DOMAIN LOWER_OF THEN LOWER_OF[c] ELSE c

\* Character by character, halving the string so that the evaluation stays
\* shallow on long strings.
RECURSIVE ToLowerCase(_)
ToLowerCase(s) ==
    IF Len(s) = 0 THEN ""
    ELSE IF Len(s) = 1 THEN LowerChar(s)
    ELSE ToLowerCase(SubSeq(s, 1, Len(s) \div 2))
         \o ToLowerCase(SubSeq(s, Len(s) \div 2 + 1, Len(s)))

\* keyword.split(" ").length: one more than the number of spaces.
SplitSpaceLength(k) == 1 + Cardinality({i \in 1..Len(k) : CharAt(k, i) = " "})

RECURSIVE Join(_, _)
Join(seq, sep) ==
    IF Len(seq) = 0 THEN ""
    ELSE IF Len(seq) = 1 THEN seq[1]
    ELSE seq[1] \o sep \o Join(Tail(seq), sep)

CountOccurrences(s, k) ==
    Cardinality({i \in 1..(Len(s) - Len(k) + 1) : SubSeq(s, i, i + Len(k) - 1) = k})

Take(seq, n) == SubSeq(seq, 1, IF Len(seq) < n THEN Len(seq) ELSE n)

(***************************************************************************)
(* gemini/client.ts: DIAGRAM_TYPES and TYPE_KEYWORDS.  Object.keys and     *)
(* Object.entries enumerate in insertion order, which the *_ORDER          *)
(* sequences record.                                                       *)
(***************************************************************************)
DIAGRAM_ORDER ==
    <<"chart", "comparison", "flow", "architecture", "timeline",
      "hierarchy", "matrix", "hero", "visualization">>

DIAGRAM_TYPES ==
    [chart         |-> [aspectRatio |-> "16:9", composition |-> "Data visualization with clear labels, axes if needed, legend"],
     comparison    |-> [aspectRatio |-> "16:9", composition |-> "Side-by-side panels, clear contrast between options"],
     flow          |-> [aspectRatio |-> "16:9", composition |-> "Sequential stages connected by arrows, left-to-right or top-to-bottom"],
     architecture  |-> [aspectRatio |-> "4:3",  composition |-> "System components with connections, layered structure"],
     timeline      |-> [aspectRatio |-> "16:9", composition |-> "Horizontal progression with milestones, dates/phases marked"],
     hierarchy     |-> [aspectRatio |-> "4:3",  composition |-> "Tree structure, parent-child relationships, org chart style"],
     matrix        |-> [aspectRatio |-> "1:1",  composition |-> "Grid layout, 2x2 or larger, quadrants with labels"],
     hero          |-> [aspectRatio |-> "2:1",  composition |-> "Abstract visual, no text, atmospheric, brand-focused"],
     visualization |-> [aspectRatio |-> "16:9", composition |-> "Process or data visualization with clear flow"]]

TYPE_ORDER ==
    <<"comparison", "flow", "architecture", "timeline", "hierarchy",
      "matrix", "chart", "hero", "visualization">>

TYPE_KEYWORDS ==
    [comparison    |-> <<"comparison", "compare", "vs", "versus", "before after",
                         "before/after", "old new", "old/new", "difference",
                         "improvement", "baseline">>,
     flow          |-> <<"flow", "process", "steps", "workflow", "pipeline",
                         "sequence", "journey", "procedure", "→", "->", "then", "next">>,
     architecture  |-> <<"architecture", "system", "infrastructure", "layers",
                         "components", "stack", "design", "structure", "diagram">>,
     timeline      |-> <<"timeline", "roadmap", "phases", "milestones", "history",
                         "evolution", "schedule", "plan">>,
     hierarchy     |-> <<"hierarchy", "org chart", "organization", "tree", "taxonomy",
                         "parent child", "inheritance">>,
     matrix        |-> <<"matrix", "grid", "table", "features", "pricing", "tiers",
                         "plans", "quadrant", "2x2">>,
     chart         |-> <<"chart", "graph", "data", "metrics", "statistics",
                         "analytics", "bar", "line", "pie", "progress">>,
     hero          |-> <<"hero", "header", "banner", "cover", "abstract", "visual">>,
     visualization |-> <<"visualization", "infographic", "overview", "summary">>]

(***************************************************************************)
(* detectTypeWithConfidence                                                *)
(***************************************************************************)
RECURSIVE SumMatched(_, _)
SumMatched(lower, keywords) ==
    IF Len(keywords) = 0 THEN 0
    ELSE (IF Includes(lower, Head(keywords)) THEN SplitSpaceLength(Head(keywords)) ELSE 0)
         + SumMatched(lower, Tail(keywords))

\* Mutation of TypeScore: every matched phrase counts one.
TypeScoreByCount(lower, dtype) ==
    Cardinality({i \in 1..Len(TYPE_KEYWORDS[dtype]) :
                    Includes(lower, TYPE_KEYWORDS[dtype][i])})

TypeScore(lower, dtype) == SumMatched(lower, TYPE_KEYWORDS[dtype])

Scores(lower) ==
    [i \in 1..Len(TYPE_ORDER) |->
        [type |-> TYPE_ORDER[i], score |-> TypeScore(lower, TYPE_ORDER[i])]]

\* Mutation of InsertByScore: an entry goes before the earlier entries of
\* the same score.
InsertByScoreUnstable(acc, e) ==
    LET n == Cardinality({i \in 1..Len(acc) : acc[i].score > e.score})
    IN  SubSeq(acc, 1, n) \o <<e>> \o SubSeq(acc, n + 1, Len(acc))

\* Array.prototype.sort is stable: an entry goes after every earlier entry
\* that the comparator b[1] - a[1] does not put behind it.
InsertByScore(acc, e) ==
    LET n == Cardinality({i \in 1..Len(acc) : acc[i].score >= e.score})
    IN  SubSeq(acc, 1, n) \o <<e>> \o SubSeq(acc, n + 1, Len(acc))

RECURSIVE SortByScoreDesc(_, _)
SortByScoreDesc(acc, rest) ==
    IF Len(rest) = 0 THEN acc
    ELSE SortByScoreDesc(InsertByScore(acc, Head(rest)), Tail(rest))

SortedScores(lower) ==
    SortByScoreDesc(<<>>, SelectSeq(Scores(lower), LAMBDA e : e.score > 0))

TypesOf(entries) == [i \in 1..Len(entries) |-> entries[i].type]

\* sorted[1][1] >= topScore * 0.7, in integers.
HasCompetition(sorted) ==
    Len(sorted) > 1 /\ 10 * sorted[2].score >= 7 * sorted[1].score

\* Mutation of Confidence: the runner-up is not looked at.
ConfidenceTopOnly(topScore, hasCompetition) ==
    IF topScore >= 3 THEN "high"
    ELSE IF topScore >= 1 THEN "medium"
    ELSE "low"

Confidence(topScore, hasCompetition) ==
    IF topScore >= 3 /\ ~hasCompetition THEN "high"
    ELSE IF topScore >= 2 \/ (topScore >= 1 /\ ~hasCompetition) THEN "medium"
    ELSE "low"

Reasoning(topType, confidence, alternatives) ==
    IF confidence = "high"
    THEN "Strong match for " \o topType \o " based on keywords."
    ELSE IF confidence = "medium"
    THEN "Detected " \o topType
         \o (IF Len(alternatives) > 0
             THEN ", but could also be " \o Join(Take(alternatives, 2), " or ")
             ELSE "")
         \o "."
    ELSE "Weak signal for " \o topType \o ". "
         \o (IF Len(alternatives) > 0
             THEN "Consider: " \o Join(alternatives, ", ")
             ELSE "")

detectTypeWithConfidence(prompt) ==
    LET lower  == ToLowerCase(prompt)
        sorted == SortedScores(lower)
    IN  IF Len(sorted) = 0
        THEN [type |-> "visualization",
              confidence |-> "low",
              alternativeTypes |-> <<"chart", "flow", "architecture">>,
              reasoning |-> "No specific type keywords found. Consider specifying: chart, flow, architecture, comparison, timeline, hierarchy, or matrix."]
        ELSE LET topType      == sorted[1].type
                 topScore     == sorted[1].score
                 alternatives == TypesOf(SubSeq(sorted, 2, IF Len(sorted) < 4 THEN Len(sorted) ELSE 4))
                 confidence   == Confidence(topScore, HasCompetition(sorted))
             IN  [type |-> topType,
                  confidence |-> confidence,
                  alternativeTypes |-> alternatives,
                  reasoning |-> Reasoning(topType, confidence, alternatives)]

(***************************************************************************)
(* analyzePrompt(prompt, options): options.type is undefined when the      *)
(* caller passed "auto" (mcp.ts:207); size always arrives (schema default). *)
(***************************************************************************)
\* s.split(sep)[0] for a one-character separator.
BeforeChar(s, sep) ==
    LET hits == {i \in 1..Len(s) : CharAt(s, i) = sep}
    IN  IF hits = {} THEN s
        ELSE SubSeq(s, 1, (CHOOSE i \in hits : \A j \in hits : i <= j) - 1)

\* `a || b` on an optional string: the empty string is falsy too.
OrElse(o, dflt) == IF IsDefined(o) /\ o[1] # "" THEN o[1] ELSE dflt

Truthy(o) == IsDefined(o) /\ o[1] # ""

RecommendedSize(lower, options) ==
    IF Includes(lower, "presentation") \/ Includes(lower, "slide")
       \/ Includes(lower, "4k") \/ Includes(lower, "high res")
    THEN "4K"
    ELSE IF Includes(lower, "thumbnail") \/ Includes(lower, "small")
            \/ Includes(lower, "preview")
    THEN "1K"
    ELSE OrElse(options.size, "2K")

RecommendedAspectRatio(lower, options, typeConfig) ==
    IF Includes(lower, "square") THEN "1:1"
    ELSE IF Includes(lower, "wide") \/ Includes(lower, "banner") \/ Includes(lower, "header")
    THEN "2:1"
    ELSE IF Includes(lower, "portrait") \/ Includes(lower, "mobile") \/ Includes(lower, "story")
    THEN "9:16"
    ELSE OrElse(options.aspectRatio, typeConfig.aspectRatio)

ClarifyingQuestion(detection) ==
    "I'm not certain about the best visualization type. " \o detection.reasoning
    \o "\n\nWhat type would you prefer?\n"
    \o Join([i \in 1..Len(DIAGRAM_ORDER) |->
                "- " \o DIAGRAM_ORDER[i] \o ": "
                \o BeforeChar(DIAGRAM_TYPES[DIAGRAM_ORDER[i]].composition, ",")],
            "\n")

Suggestions(detection) ==
    <<"Detected: " \o detection.type \o " (" \o detection.confidence \o " confidence)">>
    \o [i \in 1..Len(detection.alternativeTypes) |->
            "Alternative: " \o detection.alternativeTypes[i]]

\* Mutation of NeedsClarification: a low confidence asks whatever the caller
\* passed.
NeedsClarificationAlways(detection, options) == detection.confidence = "low"

\* The guard of the clarifying-question branch (client.ts analyzePrompt).
NeedsClarification(detection, options) ==
    detection.confidence = "low" /\ ~Truthy(options.type)

analyzePrompt(prompt, options) ==
    LET detection  == detectTypeWithConfidence(prompt)
        typeConfig == IF detection.type \in DOMAIN DIAGRAM_TYPES
                      THEN DIAGRAM_TYPES[detection.type] ELSE DIAGRAM_TYPES.chart
        lower      == ToLowerCase(prompt)
        clarify    == NeedsClarification(detection, options)
    IN  [shouldProceed          |-> ~clarify,
         recommendedType        |-> IF Truthy(options.type) /\ options.type[1] # "auto"
                                    THEN options.type[1] ELSE detection.type,
         recommendedAspectRatio |-> RecommendedAspectRatio(lower, options, typeConfig),
         recommendedSize        |-> RecommendedSize(lower, options),
         clarifyingQuestion     |-> IF clarify THEN Some(ClarifyingQuestion(detection))
                                    ELSE Undefined,
         suggestions            |-> IF detection.confidence = "medium" /\ ~Truthy(options.type)
                                    THEN Suggestions(detection) ELSE <<>>]

(***************************************************************************)
(* node:path (POSIX) as far as mcp.ts and http.ts use it.                  *)
(***************************************************************************)
\* s.split(c) where c is any one character of seps: the pieces between
\* consecutive separator positions.
SplitChar(s, seps) ==
    LET cuts == {0, Len(s) + 1} \cup {i \in 1..Len(s) : Includes(seps, CharAt(s, i))}
        at(k) == CHOOSE i \in cuts : Cardinality({j \in cuts : j < i}) = k
    IN  [k \in 1..(Cardinality(cuts) - 1) |->
            SubSeq(s, at(k - 1) + 1, at(k) - 1)]

IsAbsolute(p) == Len(p) > 0 /\ CharAt(p, 1) = "/"

RECURSIVE StripTrailingSlashes(_)
StripTrailingSlashes(p) ==
    IF Len(p) > 0 /\ CharAt(p, Len(p)) = "/"
    THEN StripTrailingSlashes(SubSeq(p, 1, Len(p) - 1))
    ELSE p

\* s.lastIndexOf(c) + 1: 0 when c does not occur.
LastIndexOf(s, c) ==
    LET hits == {i \in 1..Len(s) : CharAt(s, i) = c}
    IN  IF hits = {} THEN 0 ELSE CHOOSE i \in hits : \A j \in hits : j <= i

\* path.basename(p)
Basename(p) ==
    LET q == StripTrailingSlashes(p)
    IN  SubSeq(q, LastIndexOf(q, "/") + 1, Len(q))

\* path.extname(p)
Extname(p) ==
    LET b == Basename(p)
        d == LastIndexOf(b, ".")
    IN  IF d <= 1 \/ b = ".." THEN "" ELSE SubSeq(b, d, Len(b))

\* path.basename(p, ext)
BasenameExt(p, ext) ==
    LET b == Basename(p)
    IN  IF Len(ext) > 0 /\ b # ext /\ EndsWith(b, ext)
        THEN SubSeq(b, 1, Len(b) - Len(ext)) ELSE b

\* path.dirname(p)
Dirname(p) ==
    LET q == StripTrailingSlashes(p)
        k == LastIndexOf(q, "/")
    IN  IF Len(q) = 0 THEN (IF Len(p) > 0 THEN "/" ELSE ".")
        ELSE IF k = 0 THEN "."
        ELSE IF StripTrailingSlashes(SubSeq(q, 1, k)) = "" THEN "/"
        ELSE StripTrailingSlashes(SubSeq(q, 1, k))

\* Segment normalisation of an absolute path: "" and "." vanish, ".." pops.
RECURSIVE NormalizeSegments(_, _)
NormalizeSegments(acc, rest) ==
    IF Len(rest) = 0 THEN acc
    ELSE IF Head(rest) = "" \/ Head(rest) = "."
    THEN NormalizeSegments(acc, Tail(rest))
    ELSE IF Head(rest) = ".."
    THEN NormalizeSegments(SubSeq(acc, 1, Len(acc) - 1), Tail(rest))
    ELSE NormalizeSegments(Append(acc, Head(rest)), Tail(rest))

NormalizeAbsolute(p) == "/" \o Join(NormalizeSegments(<<>>, SplitChar(p, "/")), "/")

\* path.resolve(base, p) for an absolute base (the process's directories are).
PathResolve(base, p) ==
    IF IsAbsolute(p) THEN NormalizeAbsolute(p)
    ELSE NormalizeAbsolute(base \o "/" \o p)

\* path.join(dir, name) for an absolute dir.
PathJoin(dir, name) == NormalizeAbsolute(dir \o "/" \o name)

(***************************************************************************)
(* mcp.ts: slugFromPrompt, ensurePngExtension, sanitizeFilename,           *)
(* resolveOutputPath, isPathInsideRoot.  uuid8 is randomUUID().slice(0,8). *)
(***************************************************************************)
SLUG_CHARS == "abcdefghijklmnopqrstuvwxyz0123456789"

WHITESPACE == " \n\t\r"

SAFE_CHARS ==
    "abcdefghijklmnopqrstuvwxyzABCDEFGHIJKLMNOPQRSTUVWXYZ0123456789._-"

\* s.replace(/[^keep]/g, with), halving the string as ToLowerCase does.
RECURSIVE ReplaceOutside(_, _, _)
ReplaceOutside(s, keep, with) ==
    IF Len(s) = 0 THEN ""
    ELSE IF Len(s) = 1 THEN (IF Includes(keep, s) THEN s ELSE with)
    ELSE ReplaceOutside(SubSeq(s, 1, Len(s) \div 2), keep, with)
         \o ReplaceOutside(SubSeq(s, Len(s) \div 2 + 1, Len(s)), keep, with)

\* split(/\s+/) then filter(w => w.length > 2): the empty pieces that a run of
\* whitespace leaves are dropped by the filter either way.
slugFromPrompt(prompt) ==
    LET spaced == ReplaceOutside(ToLowerCase(prompt), SLUG_CHARS \o WHITESPACE, " ")
        words  == Take(SelectSeq(SplitChar(spaced, WHITESPACE),
                                 LAMBDA w : Len(w) > 2), 3)
    IN  IF Join(words, "_") = "" THEN "image" ELSE Join(words, "_")

ensurePngExtension(name) ==
    IF EndsWith(ToLowerCase(name), ".png") THEN name ELSE name \o ".png"

MAX_LEN == 180

RECURSIVE Trim(_)
Trim(s) ==
    IF Len(s) > 0 /\ Includes(WHITESPACE, CharAt(s, 1)) THEN Trim(SubSeq(s, 2, Len(s)))
    ELSE IF Len(s) > 0 /\ Includes(WHITESPACE, CharAt(s, Len(s)))
    THEN Trim(SubSeq(s, 1, Len(s) - 1))
    ELSE s

sanitizeFilename(input, uuid8) ==
    LET cleaned == ensurePngExtension(ReplaceOutside(Basename(input), SAFE_CHARS, "_"))
        named   == IF cleaned = ".png" \/ Trim(cleaned) = ""
                   THEN "image_" \o uuid8 \o ".png" ELSE cleaned
        cut     == SubSeq(named, 1, MAX_LEN)
    IN  IF Len(named) > MAX_LEN
        THEN ensurePngExtension(IF EndsWith(ToLowerCase(cut), ".png")
                                THEN SubSeq(cut, 1, Len(cut) - 4) ELSE cut)
        ELSE named

\* Mutation of resolveOutputPath: the hint is resolved without sanitizeFilename.
resolveOutputPathUnsanitized(outputDir, output, prompt, opts, uuid8) ==
    IF Truthy(output)
    THEN IF opts.allowAbsoluteOutput /\ IsAbsolute(output[1])
         THEN [outputPath |-> output[1], filenameForUrl |-> Undefined]
         ELSE [outputPath     |-> PathResolve(outputDir, ensurePngExtension(output[1])),
               filenameForUrl |-> Some(Basename(ensurePngExtension(output[1])))]
    ELSE LET auto == slugFromPrompt(prompt) \o "_" \o uuid8 \o ".png"
         IN  [outputPath |-> PathResolve(outputDir, auto),
              filenameForUrl |-> Some(Basename(auto))]

resolveOutputPath(outputDir, output, prompt, opts, uuid8) ==
    IF Truthy(output)
    THEN IF opts.allowAbsoluteOutput /\ IsAbsolute(output[1])
         THEN [outputPath |-> output[1], filenameForUrl |-> Undefined]
         ELSE IF opts.allowSubdirsInOutput
         THEN [outputPath     |-> PathResolve(outputDir, ensurePngExtension(output[1])),
               filenameForUrl |-> Some(Basename(ensurePngExtension(output[1])))]
         ELSE [outputPath     |-> PathResolve(outputDir, sanitizeFilename(output[1], uuid8)),
               filenameForUrl |-> Some(Basename(sanitizeFilename(output[1], uuid8)))]
    ELSE LET auto == slugFromPrompt(prompt) \o "_" \o uuid8 \o ".png"
         IN  [outputPath |-> PathResolve(outputDir, auto),
              filenameForUrl |-> Some(Basename(auto))]

StartsWith(s, k) == Len(s) >= Len(k) /\ SubSeq(s, 1, Len(k)) = k

isPathInsideRoot(rootDir, candidatePath) ==
    StartsWith(PathResolve("/", candidatePath), PathResolve("/", rootDir) \o "/")

\* Mutation of refinedPath: the refinement is written over the prior artifact.
refinedPathInPlace(lastOutputPath, uuid8) == lastOutputPath

\* The refine handler's output location (mcp.ts:319-324).
refinedPath(lastOutputPath, uuid8) ==
    PathJoin(Dirname(lastOutputPath),
             BasenameExt(lastOutputPath, Extname(lastOutputPath))
             \o "_refined_" \o uuid8 \o ".png")

\* resolveOutputPath for each argument record the model draws, as http.ts
\* configures it (constant: evaluated once).
ResolvedOf ==
    [a \in GenerateArgs |->
        [u \in Uuid8s |-> resolveOutputPath(HttpServerOptions.outputDir, a.output,
                                            a.prompt, HttpServerOptions, u)]]

\* The output locations those lead to within k refinements.
RECURSIVE RefinedPaths(_)
RefinedPaths(k) ==
    IF k = 0 THEN {ResolvedOf[a][u].outputPath : a \in GenerateArgs, u \in Uuid8s}
    ELSE RefinedPaths(k - 1)
         \cup {refinedPath(p, u) : p \in RefinedPaths(k - 1), u \in Uuid8s}

\* What the handlers compute from an output location, tabulated for the
\* locations above (constant: evaluated once).
PathFactsAt(p) ==
    [refined  |-> [u \in Uuid8s |-> refinedPath(p, u)],
     resolved |-> PathResolve("/", p),
     inside   |-> isPathInsideRoot(OUTPUT_DIR, p),
     depth    |-> CountOccurrences(p, "_refined_")]

PathFactsOf == [p \in RefinedPaths(MaxRefinements) |-> PathFactsAt(p)]

\* table[key] where the table has the key, and computed otherwise.
Lookup(table, key, computed) == IF key \in DOMAIN table THEN table[key] ELSE computed

PathFacts(p) == Lookup(PathFactsOf, p, PathFactsAt(p))

\* refinedPath, path.resolve and isPathInsideRoot, read from the table where
\* it has the location.
refinedPathOf(p, uuid8) == PathFacts(p).refined[uuid8]

resolvedPathOf(p) == PathFacts(p).resolved

isInsideOutputDir(p) == PathFacts(p).inside

\* How many refinements an output location's name records.
refinementDepth(p) == PathFacts(p).depth

(***************************************************************************)
(* gemini/client.ts: withRetry, isValidPng, GeminiImageClient.generate     *)
(* and refine.  The generation service is external: what it answers on     *)
(* each attempt is an input (a script of attempt outcomes), and so is the  *)
(* shape of the data a successful attempt carries.                         *)
(***************************************************************************)
MAX_RETRIES == 3

BASE_DELAY_MS == 1000

AttemptOutcomes ==
    {"ok", "fetch failed", "Quota exceeded", "Permission denied", "Invalid API key"}

\* Mutation of NonRetryable: only an invalid API key stops the retrying.
NonRetryableKeyOnly(message) ==
    Includes(ToLowerCase(message), "invalid api key")

NonRetryable(message) ==
    LET m == ToLowerCase(message)
    IN  Includes(m, "invalid api key") \/ Includes(m, "quota")
        \/ Includes(m, "permission denied")

RECURSIVE Pow2(_)
Pow2(n) == IF n = 0 THEN 1 ELSE 2 * Pow2(n - 1)

\* withRetry(fn): script[k] is what the k-th call of fn does.  The result
\* counts the calls made and lists the delays slept between them.
RECURSIVE RetryFrom(_, _, _)
RetryFrom(script, attempt, delays) ==
    IF attempt >= MAX_RETRIES
    THEN [ok |-> FALSE, attempts |-> attempt, delays |-> delays,
          error |-> script[attempt]]
    ELSE IF script[attempt + 1] = "ok"
    THEN [ok |-> TRUE, attempts |-> attempt + 1, delays |-> delays, error |-> ""]
    ELSE IF NonRetryable(script[attempt + 1])
    THEN [ok |-> FALSE, attempts |-> attempt + 1, delays |-> delays,
          error |-> script[attempt + 1]]
    ELSE RetryFrom(script, attempt + 1,
                   IF attempt < MAX_RETRIES - 1
                   THEN Append(delays, BASE_DELAY_MS * Pow2(attempt))
                   ELSE delays)

withRetry(script) == RetryFrom(script, 0, <<>>)

ServiceScripts == [1..MAX_RETRIES -> AttemptOutcomes]

\* What a successful response carries, as the bytes of the decoded inline
\* data: a PNG, data with another signature, or no inline data at all.
PNG_SIGNATURE == <<137, 80, 78, 71, 13, 10, 26, 10>>

PngImage == PNG_SIGNATURE \o <<0, 0, 0, 13, 73, 72, 68, 82>>

JpegImage == <<255, 216, 255, 224, 0, 16, 74, 70, 73, 70>>

\* The signature with its last byte changed, and the signature alone.
AlmostPng == <<137, 80, 78, 71, 13, 10, 26, 11, 0, 0, 0, 13>>

NoImage == <<>>

ResponseData == {PngImage, JpegImage, AlmostPng, PNG_SIGNATURE, NoImage}

\* Mutation of isValidPng: the length is checked, the signature is not.
isValidPngAnyData(data) == Len(data) > 8

isValidPng(data) == Len(data) > 8 /\ SubSeq(data, 1, 8) = PNG_SIGNATURE

\* buildPromptFromContext: the composition parameters sent to the service.
typeConfigOf(diagramType) ==
    IF diagramType \in DOMAIN DIAGRAM_TYPES
    THEN DIAGRAM_TYPES[diagramType] ELSE DIAGRAM_TYPES.chart

promptContext(context, diagramType, options) ==
    [context     |-> context,
     diagramType |-> diagramType,
     aspectRatio |-> OrElse(options.aspectRatio, typeConfigOf(diagramType).aspectRatio),
     imageSize   |-> OrElse(options.size, "2K")]

buildPromptFromContext(context, options) ==
    promptContext(context,
                  IF Truthy(options.type) THEN options.type[1]
                  ELSE detectTypeWithConfidence(context).type,
                  options)

\* What the file system does to mkdirSync and writeFileSync during a call.
FsOutcomes == {"ok", "mkdir fails", "write fails"}

\* GeminiImageClient.generate, given what withRetry returned for its calls of
\* the service (tried), the data a successful answer carries and the file
\* system's behaviour.  `saved` is the path fs.writeFileSync wrote.
generateFrom(built, outputPath, tried, data, fs) ==
        IF fs = "mkdir fails"
        THEN [success |-> FALSE, outputPath |-> Undefined, aspectRatio |-> Undefined,
              error |-> "Generation failed: EACCES: permission denied, mkdir",
              attempts |-> 0, saved |-> Undefined, request |-> built]
        ELSE IF ~tried.ok
        THEN [success |-> FALSE, outputPath |-> Undefined, aspectRatio |-> Undefined,
              error |-> "Generation failed: " \o tried.error,
              attempts |-> tried.attempts, saved |-> Undefined, request |-> built]
        ELSE IF data = NoImage
        THEN [success |-> FALSE, outputPath |-> Undefined, aspectRatio |-> Undefined,
              error |-> "No image generated",
              attempts |-> tried.attempts, saved |-> Undefined, request |-> built]
        ELSE IF ~isValidPng(data)
        THEN [success |-> FALSE, outputPath |-> Undefined, aspectRatio |-> Undefined,
              error |-> "Generated data is not a valid PNG image",
              attempts |-> tried.attempts, saved |-> Undefined, request |-> built]
        ELSE IF fs = "write fails"
        THEN [success |-> FALSE, outputPath |-> Undefined, aspectRatio |-> Undefined,
              error |-> "Generation failed: ENOSPC: no space left on device, write",
              attempts |-> tried.attempts, saved |-> Undefined, request |-> built]
        ELSE [success |-> TRUE,
              outputPath |-> Some(resolvedPathOf(outputPath)),
              aspectRatio |-> Some(built.aspectRatio),
              error |-> "",
              attempts |-> tried.attempts, saved |-> Some(outputPath), request |-> built]

generate(prompt, outputPath, options, tried, data, fs) ==
    generateFrom(buildPromptFromContext(
                     prompt,
                     [options EXCEPT !.type = IF options.type = Some("auto")
                                              THEN Undefined ELSE options.type]),
                 outputPath, tried, data, fs)

combinedPrompt(originalPrompt, refinement) ==
    originalPrompt \o "\n\nREFINEMENT REQUEST:\n" \o refinement
    \o "\n\nIMPORTANT: Keep the same overall design and content, only apply the requested changes."

refine(originalPrompt, refinement, outputPath, options, tried, data, fs) ==
    generate(combinedPrompt(originalPrompt, refinement), outputPath, options, tried, data, fs)

(***************************************************************************)
(* auth.ts: extractBearerToken and the three verifiers.  A request carries *)
(* an optional Authorization header and an optional ?token= parameter.     *)
(***************************************************************************)
RECURSIVE StripLeadingWhitespace(_)
StripLeadingWhitespace(s) ==
    IF Len(s) > 0 /\ Includes(WHITESPACE, CharAt(s, 1))
    THEN StripLeadingWhitespace(SubSeq(s, 2, Len(s)))
    ELSE s

\* auth.match(/^Bearer\s+(.+)$/i): m[1] if it matches.
BearerMatch(auth) ==
    LET rest  == SubSeq(auth, 7, Len(auth))
        token == StripLeadingWhitespace(rest)
    IN  IF Len(auth) >= 8 /\ ToLowerCase(SubSeq(auth, 1, 6)) = "bearer"
           /\ Includes(WHITESPACE, CharAt(rest, 1))
        THEN IF token # "" THEN Some(token)
             ELSE IF Len(rest) >= 2 THEN Some(CharAt(rest, Len(rest)))
             ELSE Undefined
        ELSE Undefined

\* Mutation of extractBearerToken: ?token= is read before the header.
extractBearerTokenQueryFirst(req, allowQueryToken) ==
    IF allowQueryToken /\ Truthy(req.queryToken)
    THEN req.queryToken
    ELSE IF IsDefined(req.authorization) /\ IsDefined(BearerMatch(req.authorization[1]))
    THEN BearerMatch(req.authorization[1])
    ELSE Undefined

\* Mutation of extractBearerToken: ?token= is read whatever allowQueryToken is.
extractBearerTokenAnyQuery(req, allowQueryToken) ==
    IF IsDefined(req.authorization) /\ IsDefined(BearerMatch(req.authorization[1]))
    THEN BearerMatch(req.authorization[1])
    ELSE IF Truthy(req.queryToken)
    THEN req.queryToken
    ELSE Undefined

extractBearerToken(req, allowQueryToken) ==
    IF IsDefined(req.authorization) /\ IsDefined(BearerMatch(req.authorization[1]))
    THEN BearerMatch(req.authorization[1])
    ELSE IF allowQueryToken /\ Truthy(req.queryToken)
    THEN req.queryToken
    ELSE Undefined

Allow == [ok |-> TRUE, status |-> 200, error |-> ""]

Deny(error) == [ok |-> FALSE, status |-> 401, error |-> error]

\* jwtVerify (jose) is external: these are the tokens it accepts for the
\* configured key set, issuer and audience.
ValidJwts == {"jwt.valid"}

\* Mutation of verifyRequest: a token is accepted when a configured token
\* starts with it.
verifyRequestByPrefix(verifier, req) ==
    IF verifier.mode = "none" THEN Allow
    ELSE LET token == extractBearerToken(req, verifier.allowQueryToken)
         IN  IF ~Truthy(token) THEN Deny("Unauthorized")
             ELSE IF verifier.mode = "token"
             THEN IF \E t \in verifier.tokens : StartsWith(t, token[1])
                  THEN Allow ELSE Deny("Unauthorized")
             ELSE IF token[1] \in ValidJwts THEN Allow
             ELSE Deny("Unauthorized: signature verification failed")

\* authVerifier.verifyRequest for the verifier built at startup.
verifyRequest(verifier, req) ==
    IF verifier.mode = "none" THEN Allow
    ELSE LET token == extractBearerToken(req, verifier.allowQueryToken)
         IN  IF ~Truthy(token) THEN Deny("Unauthorized")
             ELSE IF verifier.mode = "token"
             THEN IF token[1] \in verifier.tokens THEN Allow ELSE Deny("Unauthorized")
             ELSE IF token[1] \in ValidJwts THEN Allow
             ELSE Deny("Unauthorized: signature verification failed")

\* raw ?? "token"
OrElseRaw(raw) == IF IsDefined(raw) THEN raw[1] ELSE "token"

\* Mutation of parseAuthMode: a value that reads like a refusal turns
\* authentication off.
parseAuthModeLenient(raw) ==
    LET v == Trim(ToLowerCase(OrElseRaw(raw)))
    IN  IF v \in {"token", "static", "bearer-token"} THEN "token"
        ELSE IF v \in {"oidc", "jwt", "oidc-jwt"} THEN "oidc"
        ELSE IF v \in {"none", "off", "disabled", "false", "no", ""} THEN "none"
        ELSE "token"

parseAuthMode(raw) ==
    LET v == Trim(ToLowerCase(OrElseRaw(raw)))
    IN  IF v \in {"token", "static", "bearer-token"} THEN "token"
        ELSE IF v \in {"oidc", "jwt", "oidc-jwt"} THEN "oidc"
        ELSE IF v \in {"none", "off", "disabled"} THEN "none"
        ELSE "token"

\* What the generation service and the file system do during one call: what
\* each attempt answers, the data a successful attempt carries, and the file
\* system's answer.
ServiceScenarios ==
    {[script |-> <<"ok", "ok", "ok">>, data |-> PngImage, fs |-> "ok"],
     [script |-> <<"Quota exceeded", "ok", "ok">>, data |-> PngImage, fs |-> "ok"],
     [script |-> <<"fetch failed", "fetch failed", "fetch failed">>, data |-> PngImage,
      fs |-> "ok"],
     [script |-> <<"ok", "ok", "ok">>, data |-> JpegImage, fs |-> "ok"],
     [script |-> <<"ok", "ok", "ok">>, data |-> AlmostPng, fs |-> "ok"]}

\* The same with withRetry applied to each script (constant: evaluated once).
ServiceBehaviours ==
    {[tried |-> withRetry(s.script), data |-> s.data, fs |-> s.fs] : s \in ServiceScenarios}

(***************************************************************************)
(* State.                                                                  *)
(***************************************************************************)
VARIABLES
    phase,       \* "starting", "serving" or "exited"
    exitCode,    \* process exit code, once exited
    listening,   \* the HTTP listener accepts connections
    verifier,    \* the AuthVerifier built at startup
    transports,  \* http.ts registry: session id -> transport
    closed,      \* session ids of transports that have closed
    created,     \* number of session ids generated so far
    last,        \* per dispatcher (keyed by its transport's id): `last`
    elapsed,     \* per dispatcher: ms since its Session was last written
    calls,       \* bag of tool calls suspended on client.generate / client.refine
    shutdowns,   \* one record per shutdown(signal) invocation
    ev,          \* the last exchange: request, response and tool result
    sessionFile, \* utils/session.ts: the content of SESSION_FILE, if it exists
    now,         \* Date.now(), in ms
    probe        \* the last call of a library function: its input and output

\* The variables of the HTTP server, and those beside it.
serverVars ==
    <<phase, exitCode, listening, verifier, transports, closed, created,
      last, elapsed, calls, shutdowns, ev>>

aside == <<sessionFile, now, probe>>

vars == <<serverVars, aside>>

NoEvent ==
    [kind |-> "none", method |-> "", path |-> "", sessionId |-> "", cred |-> <<>>,
     verified |-> "", status |-> 0, handler |-> "", body |-> "",
     disp |-> "", tool |-> "", args |-> <<>>, outcome |-> "", text |-> "",
     isError |-> FALSE, attempts |-> 0, call |-> <<>>, saved |-> <<>>]

NoVerifier == [mode |-> "none", allowQueryToken |-> FALSE, tokens |-> {}]

NoProbe == [fn |-> "none"]

ServerInit ==
    /\ phase = "starting"
    /\ exitCode = Undefined
    /\ listening = FALSE
    /\ verifier = NoVerifier
    /\ transports = <<>>
    /\ closed = {}
    /\ created = 0
    /\ last = <<>>
    /\ elapsed = <<>>
    /\ calls = EmptyBag
    /\ shutdowns = <<>>
    /\ ev = NoEvent

Init ==
    /\ ServerInit
    /\ sessionFile = Undefined
    /\ now = 0
    /\ probe = NoProbe

(***************************************************************************)
(* startHttpServer (http.ts:30-38, 218-229) under main().catch.            *)
(***************************************************************************)
parseCommaList(value) ==
    IF ~Truthy(value) THEN <<>>
    ELSE SelectSeq([i \in 1..Len(SplitChar(value[1], ",")) |->
                       Trim(SplitChar(value[1], ",")[i])],
                   LAMBDA t : t # "")

SeqToSet(seq) == {seq[i] : i \in 1..Len(seq)}

\* Mutation of VerifierFromEnv: the OIDC verifier is built whatever the
\* discovery answered.
VerifierFromEnvNoDiscovery(env, discoveryOk) ==
    LET mode == parseAuthMode(env.MCP_AUTH_MODE)
        tokens == IF Len(parseCommaList(env.MCP_AUTH_TOKENS)) > 0
                  THEN parseCommaList(env.MCP_AUTH_TOKENS)
                  ELSE parseCommaList(env.MCP_AUTH_TOKEN)
    IN  IF mode = "oidc"
        THEN IF ~Truthy(env.OIDC_ISSUER) \/ Trim(env.OIDC_ISSUER[1]) = ""
             THEN Undefined
             ELSE Some([mode |-> "oidc",
                        allowQueryToken |-> env.MCP_ALLOW_QUERY_TOKEN = Some("1"),
                        tokens |-> {}])
        ELSE IF mode = "none"
        THEN Some([mode |-> "none", allowQueryToken |-> FALSE, tokens |-> {}])
        ELSE IF Len(tokens) = 0 THEN Undefined
        ELSE Some([mode |-> "token",
                   allowQueryToken |-> env.MCP_ALLOW_QUERY_TOKEN # Some("0"),
                   tokens |-> SeqToSet(tokens)])

\* The verifier startHttpServer builds, or Undefined where construction throws.
\* discoveryOk: the OIDC discovery document was fetched and names jwks_uri.
VerifierFromEnv(env, discoveryOk) ==
    LET mode == parseAuthMode(env.MCP_AUTH_MODE)
        tokens == IF Len(parseCommaList(env.MCP_AUTH_TOKENS)) > 0
                  THEN parseCommaList(env.MCP_AUTH_TOKENS)
                  ELSE parseCommaList(env.MCP_AUTH_TOKEN)
    IN  IF mode = "oidc"
        THEN IF ~Truthy(env.OIDC_ISSUER) \/ Trim(env.OIDC_ISSUER[1]) = "" \/ ~discoveryOk
             THEN Undefined
             ELSE Some([mode |-> "oidc",
                        allowQueryToken |-> env.MCP_ALLOW_QUERY_TOKEN = Some("1"),
                        tokens |-> {}])
        ELSE IF mode = "none"
        THEN Some([mode |-> "none", allowQueryToken |-> FALSE, tokens |-> {}])
        ELSE IF Len(tokens) = 0 THEN Undefined
        ELSE Some([mode |-> "token",
                   allowQueryToken |-> env.MCP_ALLOW_QUERY_TOKEN # Some("0"),
                   tokens |-> SeqToSet(tokens)])

\* The verifier each environment yields (constant: evaluated once).
BuiltVerifier == [env \in Environments |-> VerifierFromEnv(env, TRUE)]

\* process.env of startups that may fail: the API key under either name, the
\* auth mode, the static token and the OIDC issuer, each present or not.
StartupEnvironments ==
    {[GEMINI_API_KEY |-> k[1], GOOGLE_API_KEY |-> k[2], MCP_AUTH_MODE |-> m,
      MCP_AUTH_TOKEN |-> t, MCP_AUTH_TOKENS |-> Undefined,
      MCP_ALLOW_QUERY_TOKEN |-> Undefined, OIDC_ISSUER |-> i] :
        k \in {<<Some("key"), Undefined>>, <<Undefined, Some("key")>>,
               <<Undefined, Undefined>>, <<Some(""), Undefined>>},
        m \in {Undefined, Some("oidc"), Some("none")},
        t \in {Some("s3cret"), Undefined},
        i \in {Some("https://issuer.example"), Undefined, Some("  ")}}

\* What the fetch of the OIDC discovery document yields.
DiscoveryOutcomes == {"ok", "not ok", "no jwks_uri"}

\* runtime.ts: getApiKeyFromEnv
getApiKeyFromEnv(env) ==
    IF Truthy(env.GEMINI_API_KEY) THEN env.GEMINI_API_KEY ELSE env.GOOGLE_API_KEY

\* The verifier each of these environments yields, with the discovery
\* succeeding and failing (constant: evaluated once).
StartupVerifier ==
    [env \in StartupEnvironments |-> [d \in BOOLEAN |-> VerifierFromEnv(env, d)]]

\* startHttpServer under main().catch for any of these environments; probe
\* keeps the environment the process was started with.
StartHttpServerAnyEnv ==
    /\ phase = "starting"
    /\ \E env \in StartupEnvironments, discovery \in DiscoveryOutcomes :
       \E built \in {StartupVerifier[env][discovery = "ok"]} :
          /\ IF Truthy(getApiKeyFromEnv(env)) /\ IsDefined(built)
             THEN /\ phase' = "serving"
                  /\ listening' = TRUE
                  /\ verifier' = built[1]
                  /\ exitCode' = exitCode
                  /\ ev' = [NoEvent EXCEPT !.kind = "listen"]
             ELSE /\ phase' = "exited"
                  /\ exitCode' = Some(1)
                  /\ ev' = [NoEvent EXCEPT !.kind = "fatal"]
                  /\ UNCHANGED <<listening, verifier>>
          /\ probe' = [fn |-> "startHttpServer", env |-> env, discovery |-> discovery]
    /\ UNCHANGED <<sessionFile, now, transports, closed, created, last, elapsed,
                   calls, shutdowns>>

StartHttpServer ==
    /\ phase = "starting"
    /\ \E env \in Environments :
          IF Truthy(env.GEMINI_API_KEY) /\ IsDefined(BuiltVerifier[env])
          THEN /\ phase' = "serving"
               /\ listening' = TRUE
               /\ verifier' = BuiltVerifier[env][1]
               /\ exitCode' = exitCode
               /\ ev' = [NoEvent EXCEPT !.kind = "listen"]
          ELSE /\ phase' = "exited"
               /\ exitCode' = Some(1)
               /\ ev' = [NoEvent EXCEPT !.kind = "fatal"]
               /\ UNCHANGED <<listening, verifier>>
    /\ UNCHANGED <<aside, transports, closed, created, last, elapsed, calls, shutdowns>>

(***************************************************************************)
(* mcp.ts: the two tool handlers of one dispatcher, up to their first      *)
(* suspension (the await of client.generate / client.refine).  `last` is   *)
(* the closure variable of createGeminiDiagramServer: one per dispatcher.  *)
(***************************************************************************)
\* Mutation of SessionSlot: `last` declared at module level, one for all
\* dispatchers.
SharedSlot(d) == IdPool[1]

\* The dispatcher instance whose `last` a handler of dispatcher d reads and
\* writes (mcp.ts:192: declared inside createGeminiDiagramServer).
SessionSlot(d) == d

REFINEMENT_MARK == "\n\nRefinement: "

AnalysisOptions(args) ==
    [type        |-> IF args.type = "auto" THEN Undefined ELSE Some(args.type),
     aspectRatio |-> args.aspect_ratio,
     size        |-> Some(args.size)]

\* mcp.ts:205-209 for each argument record the model draws (constant:
\* evaluated once).
AnalysisOf == [a \in GenerateArgs |-> analyzePrompt(a.prompt, AnalysisOptions(a))]

\* Mutation of AsksInsteadOfGenerating: a handler without the clarifying
\* branch.
AsksNever(analysis) == FALSE

\* mcp.ts:211: the handler returns the question instead of generating.
AsksInsteadOfGenerating(analysis) ==
    ~analysis.shouldProceed /\ Truthy(analysis.clarifyingQuestion)

\* generate_image up to `await client.generate(...)`: either the immediate
\* reply, or the suspended call with the locals it keeps across the await.
generateImageFrom(d, args, analysis, resolved) ==
        IF AsksInsteadOfGenerating(analysis)
        THEN [suspended |-> FALSE, outcome |-> "clarify", isError |-> FALSE,
              text |-> analysis.clarifyingQuestion[1], call |-> Undefined]
        ELSE [suspended |-> TRUE, outcome |-> "pending", isError |-> FALSE,
              text |-> "",
              call |-> Some([disp           |-> d,
                             tool           |-> "generate_image",
                             prompt         |-> args.prompt,
                             refinement     |-> "",
                             outputPath     |-> resolved.outputPath,
                             filenameForUrl |-> resolved.filenameForUrl,
                             finalType      |-> analysis.recommendedType,
                             finalSize      |-> analysis.recommendedSize,
                             options        |-> [type        |-> Some(analysis.recommendedType),
                                                 aspectRatio |-> Some(analysis.recommendedAspectRatio),
                                                 size        |-> Some(analysis.recommendedSize)],
                             suggestions    |-> analysis.suggestions])]

generateImageStart(d, args, uuid8) ==
    generateImageFrom(d, args, AnalysisOf[args], ResolvedOf[args][uuid8])

NO_PREVIOUS_IMAGE == "No previous image to refine. Use generate_image first."

\* Mutation of refineImageStart: the handler without its `if (!last)` guard.
refineImageStartUnguarded(d, args, session, uuid8) ==
    [suspended |-> TRUE, outcome |-> "pending", isError |-> FALSE, text |-> "",
     call |-> Some([disp           |-> d,
                    tool           |-> "refine_image",
                    prompt         |-> "",
                    refinement     |-> args.refinement,
                    outputPath     |-> "/data/out/image_refined_" \o uuid8 \o ".png",
                    filenameForUrl |-> Undefined,
                    finalType      |-> "chart",
                    finalSize      |-> "2K",
                    options        |-> [type        |-> Some("chart"),
                                        aspectRatio |-> Undefined,
                                        size        |-> Undefined],
                    suggestions    |-> <<>>])]

\* refine_image up to `await client.refine(...)`.
refineImageStart(d, args, session, uuid8) ==
    IF ~IsDefined(session)
    THEN [suspended |-> FALSE, outcome |-> "noprior", isError |-> TRUE,
          text |-> NO_PREVIOUS_IMAGE, call |-> Undefined]
    ELSE [suspended |-> TRUE, outcome |-> "pending", isError |-> FALSE,
          text |-> "",
          call |-> Some([disp           |-> d,
                         tool           |-> "refine_image",
                         prompt         |-> session[1].lastPrompt,
                         refinement     |-> args.refinement,
                         outputPath     |-> refinedPathOf(session[1].lastOutputPath, uuid8),
                         filenameForUrl |-> Undefined,
                         finalType      |-> session[1].lastType,
                         finalSize      |-> OrElse(session[1].size, ""),
                         options        |-> [type        |-> Some(session[1].lastType),
                                             aspectRatio |-> session[1].aspectRatio,
                                             size        |-> session[1].size],
                         suggestions    |-> <<>>])]

ToolCalls ==
    {[tool |-> "generate_image", args |-> a] : a \in GenerateArgs}
    \cup {[tool |-> "refine_image", args |-> a] : a \in RefineArgs}

\* The start of a tool call that a transport delivered to dispatcher d.
toolStart(d, tc, uuid8) ==
    IF tc.tool = "generate_image"
    THEN generateImageStart(d, tc.args, uuid8)
    ELSE refineImageStart(d, tc.args, last[SessionSlot(d)], uuid8)

\* What the model lets in: the bounds on suspended calls and on the number
\* of refinements chained on one artifact.
WithinBounds(d, tc) ==
    /\ BagCardinality(calls) < MaxInFlight
    /\ tc.tool = "refine_image" /\ IsDefined(last[SessionSlot(d)])
       => refinementDepth(last[SessionSlot(d)][1].lastOutputPath) < MaxRefinements

(***************************************************************************)
(* The handlers after the await: the result of client.generate or          *)
(* client.refine arrives and the handler runs to its return.               *)
(***************************************************************************)
DownloadLines(call, result, opts) ==
    IF Truthy(opts.publicBaseUrl) /\ Truthy(call.filenameForUrl)
       /\ isInsideOutputDir(result.outputPath[1])
    THEN "\nDownload: " \o opts.publicBaseUrl[1] \o "/files/" \o call.filenameForUrl[1]
         \o "\nNote: download requires MCP_AUTH_TOKEN (Authorization header or ?token=...)."
    ELSE ""

GeneratedText(call, result, opts) ==
    "Generated " \o call.finalType \o " (" \o result.aspectRatio[1] \o ", "
    \o call.finalSize \o ")\nSaved: " \o result.outputPath[1]
    \o DownloadLines(call, result, opts)
    \o (IF Len(call.suggestions) > 0
        THEN "\nNote: " \o Join(call.suggestions, ". ") \o ". Use 'type' parameter to override."
        ELSE "")

\* Mutation of generateImageFinish: `last` is assigned before the result is
\* looked at.
generateImageFinishEarlyWrite(call, result, session, opts) ==
    [outcome |-> IF result.success THEN "ok" ELSE "failed",
     isError |-> ~result.success,
     text    |-> IF result.success THEN "Generated " \o call.finalType
                 ELSE "Failed to generate image: " \o result.error,
     last    |-> Some([lastPrompt     |-> call.prompt,
                       lastOutputPath |-> call.outputPath,
                       lastType       |-> call.finalType,
                       aspectRatio    |-> call.options.aspectRatio,
                       size           |-> Some(call.finalSize)])]

\* generate_image after the await: the reply and the new value of `last`.
generateImageFinish(call, result, session, opts) ==
    IF ~result.success
    THEN [outcome |-> "failed", isError |-> TRUE,
          text |-> "Failed to generate image: " \o result.error,
          last |-> session]
    ELSE [outcome |-> "ok", isError |-> FALSE,
          text |-> GeneratedText(call, result, opts),
          last |-> Some([lastPrompt     |-> call.prompt,
                         lastOutputPath |-> result.outputPath[1],
                         lastType       |-> call.finalType,
                         aspectRatio    |-> result.aspectRatio,
                         size           |-> Some(call.finalSize)])]

\* refine_image after the await: `last` is read again here (mcp.ts:349-355).
refineImageFinish(call, result, session) ==
    IF ~result.success
    THEN [outcome |-> "failed", isError |-> TRUE,
          text |-> "Failed to refine image: " \o result.error,
          last |-> session]
    ELSE [outcome |-> "ok", isError |-> FALSE,
          text |-> "Refined image saved: " \o result.outputPath[1],
          last |-> Some([lastPrompt     |-> session[1].lastPrompt \o REFINEMENT_MARK
                                            \o call.refinement,
                         lastOutputPath |-> result.outputPath[1],
                         lastType       |-> session[1].lastType,
                         aspectRatio    |-> session[1].aspectRatio,
                         size           |-> session[1].size])]

clientResult(call, b) ==
    IF call.tool = "generate_image"
    THEN generate(call.prompt, call.outputPath, call.options, b.tried, b.data, b.fs)
    ELSE refine(call.prompt, call.refinement, call.outputPath, call.options,
                b.tried, b.data, b.fs)

toolFinish(call, result) ==
    IF call.tool = "generate_image"
    THEN generateImageFinish(call, result, last[SessionSlot(call.disp)], HttpServerOptions)
    ELSE refineImageFinish(call, result, last[SessionSlot(call.disp)])

\* A suspended call resumes with the generation client's result b.
Complete(call, b) ==
    \E result \in {clientResult(call, b)} :
    \E done \in {toolFinish(call, result)} :
        /\ calls' = calls (-) SetToBag({call})
        /\ last' = [last EXCEPT ![SessionSlot(call.disp)] = done.last]
        /\ elapsed' = IF result.success
                      THEN [elapsed EXCEPT ![SessionSlot(call.disp)] = 0]
                      ELSE elapsed
        /\ ev' = [NoEvent EXCEPT !.kind = "result", !.disp = call.disp,
                                 !.tool = call.tool, !.outcome = done.outcome,
                                 !.text = done.text, !.isError = done.isError,
                                 !.attempts = result.attempts,
                                 !.call = Some(call), !.saved = result.saved]

CompleteCall ==
    /\ phase = "serving"
    /\ \E call \in BagToSet(calls), b \in ServiceBehaviours : Complete(call, b)
    /\ UNCHANGED <<aside, phase, exitCode, listening, verifier, transports, closed,
                   created, shutdowns>>

(***************************************************************************)
(* http.ts: the Express pipeline.  Routes run in registration order:       *)
(* GET /healthz, then the authentication middleware, then the rest.        *)
(* A request is [method, path, cred, sid, body]; sid is the mcp-session-id *)
(* header on /mcp and the sessionId query parameter on /messages.          *)
(***************************************************************************)
Endpoints ==
    {<<"GET", "/healthz">>, <<"POST", "/healthz">>, <<"GET", "/files">>,
     <<"POST", "/mcp">>, <<"GET", "/mcp">>, <<"DELETE", "/mcp">>,
     <<"GET", "/sse">>, <<"POST", "/messages">>, <<"GET", "/other">>}

InitializeBody == [kind |-> "initialize", call |-> Undefined]

PingBody == [kind |-> "ping", call |-> Undefined]

\* JSON-RPC bodies that reach no tool handler: initialize, and anything else.
ProtocolBodies == {InitializeBody, PingBody}

ToolBodies == {[kind |-> "tools/call", call |-> Some(tc)] : tc \in ToolCalls}

\* Session ids a client may present: none, or any id (known or not).
PresentedIds == {""} \cup SessionIds

\* Every endpoint with every credential; the session id and the body vary
\* where a handler reads them.
HttpRequests ==
    {[method |-> e[1], path |-> e[2], cred |-> c, sid |-> "", body |-> PingBody] :
        e \in {x \in Endpoints : x[2] \notin {"/mcp", "/messages"}}, c \in Credentials}
    \cup {[method |-> m, path |-> "/mcp", cred |-> c, sid |-> s, body |-> b] :
            m \in {"GET", "POST", "DELETE"}, c \in Credentials, s \in PresentedIds,
            b \in ProtocolBodies}
    \cup {[method |-> "POST", path |-> "/messages", cred |-> c, sid |-> s,
            body |-> PingBody] : c \in Credentials, s \in PresentedIds}

\* Authenticated clients that open Streamable HTTP sessions and call the
\* tools on them.
ToolRequests ==
    {[method |-> "POST", path |-> "/mcp", cred |-> ValidCredential, sid |-> "",
      body |-> InitializeBody]}
    \cup {[method |-> "POST", path |-> "/mcp", cred |-> ValidCredential, sid |-> s,
            body |-> b] : s \in SessionIds, b \in ToolBodies}

\* The handler Express picks for a request that reached the routes.
Route(method, path) ==
    IF method = "GET" /\ path = "/files" THEN "files"
    ELSE IF path = "/mcp" THEN "mcp"
    ELSE IF method = "GET" /\ path = "/sse" THEN "sse"
    ELSE IF method = "POST" /\ path = "/messages" THEN "messages"
    ELSE "none"

\* Mutation of ServedBeforeAuth: the file route registered above the
\* middleware as well.
ServedBeforeAuthWithFiles(method, path) ==
    method = "GET" /\ path \in {"/healthz", "/files"}

\* app.get("/healthz") is registered before app.use(auth) (http.ts:57-80).
ServedBeforeAuth(method, path) == method = "GET" /\ path = "/healthz"

\* The verifiers startup can build from the environments of the model.
Verifiers ==
    {NoVerifier}
    \cup {BuiltVerifier[e][1] : e \in {x \in Environments : IsDefined(BuiltVerifier[x])}}
    \cup {StartupVerifier[e][TRUE][1] :
            e \in {x \in StartupEnvironments : IsDefined(StartupVerifier[x][TRUE])}}

\* verifyRequest of each verifier startup can build, for each credential the
\* model presents (constant: evaluated once).
VerifiedOf == [v \in Verifiers |-> [c \in Credentials |-> verifyRequest(v, c)]]

\* "skipped": answered before the middleware; otherwise the verifier's verdict.
Verdict(r) ==
    IF ServedBeforeAuth(r.method, r.path) THEN "skipped"
    ELSE IF VerifiedOf[verifier][r.cred].ok THEN "ok" ELSE "denied"

HttpEvent(r, status, handler) ==
    [NoEvent EXCEPT !.kind = "http", !.method = r.method, !.path = r.path,
                    !.sessionId = r.sid, !.cred = Some(r.cred),
                    !.verified = Verdict(r), !.status = status, !.handler = handler,
                    !.body = r.body.kind]

Registered(sid) == sid \in DOMAIN transports

Unregister(sid) == [k \in DOMAIN transports \ {sid} |-> transports[k]]

\* Mutation of Register: the transport is stored under the first id of the
\* pool as well as its own.
RegisterTwice(sid, kind) ==
    [k \in DOMAIN transports \cup {sid, IdPool[1]} |->
        IF k \in {sid, IdPool[1]} THEN [kind |-> kind, sessionId |-> sid]
        ELSE transports[k]]

\* transports[sid] = transport (http.ts:134-136, 183).
Register(sid, kind) ==
    [k \in DOMAIN transports \cup {sid} |->
        IF k = sid THEN [kind |-> kind, sessionId |-> sid] ELSE transports[k]]

\* Mutation of onclose: a handler that leaves the registry alone.
oncloseKeepsEntry(sid) == transports

\* transport.onclose (http.ts:131-136): the registry after it has run.
onclose(sid) == IF Registered(sid) THEN Unregister(sid) ELSE transports

\* Mutation of NewDispatcher: the new dispatcher starts from the state of a
\* dispatcher that exists already.
NewDispatcherInheriting(f, sid, v) ==
    [k \in DOMAIN f \cup {sid} |->
        IF k # sid THEN f[k]
        ELSE IF DOMAIN f = {} THEN v ELSE f[CHOOSE d \in DOMAIN f : TRUE]]

\* createGeminiDiagramServer: a dispatcher with its own `last`.
NewDispatcher(f, sid, v) == [k \in DOMAIN f \cup {sid} |-> IF k = sid THEN v ELSE f[k]]

\* GET /healthz
Healthz(R) ==
    /\ phase = "serving"
    /\ \E r \in R :
          /\ r.method = "GET" /\ r.path = "/healthz"
          /\ Verdict(r) # "denied"
          /\ ev' = HttpEvent(r, 200, "healthz")
    /\ UNCHANGED <<aside, phase, exitCode, listening, verifier, transports, closed,
                   created, last, elapsed, calls, shutdowns>>

\* The middleware answers for the verifier: the request goes no further.
Unauthorized(R) ==
    /\ phase = "serving"
    /\ \E r \in R :
          /\ Verdict(r) = "denied"
          /\ ev' = HttpEvent(r, VerifiedOf[verifier][r.cred].status, "none")
    /\ UNCHANGED <<aside, phase, exitCode, listening, verifier, transports, closed,
                   created, last, elapsed, calls, shutdowns>>

\* No route matches: Express answers 404.
NotFound(R) ==
    /\ phase = "serving"
    /\ \E r \in R :
          /\ ~(r.method = "GET" /\ r.path = "/healthz")
          /\ Route(r.method, r.path) = "none"
          /\ Verdict(r) # "denied"
          /\ ev' = HttpEvent(r, 404, "none")
    /\ UNCHANGED <<aside, phase, exitCode, listening, verifier, transports, closed,
                   created, last, elapsed, calls, shutdowns>>

\* Mutation of filesStatus: existence is checked before the name.
filesStatusExistsFirst(filename, exists) ==
    IF ~exists THEN 404
    ELSE IF filename # Basename(filename) THEN 400
    ELSE IF ~StartsWith(PathResolve(OUTPUT_DIR, filename),
                        PathResolve("/", OUTPUT_DIR) \o "/") THEN 400
    ELSE 200

\* app.get("/files/:filename"); whether the file exists is the file system's.
filesStatus(filename, exists) ==
    IF filename # Basename(filename) THEN 400
    ELSE IF ~StartsWith(PathResolve(OUTPUT_DIR, filename),
                        PathResolve("/", OUTPUT_DIR) \o "/") THEN 400
    ELSE IF ~exists THEN 404
    ELSE 200

\* filesStatus for each name the model requests (constant: evaluated once).
FilesStatusOf == [f \in Filenames |-> [x \in BOOLEAN |-> filesStatus(f, x)]]

FilesGet(R) ==
    /\ phase = "serving"
    /\ \E r \in R, filename \in Filenames, exists \in BOOLEAN :
          /\ Route(r.method, r.path) = "files"
          /\ Verdict(r) # "denied"
          /\ ev' = [HttpEvent(r, FilesStatusOf[filename][exists], "files")
                    EXCEPT !.text = filename,
                           !.outcome = IF exists THEN "exists" ELSE "absent"]
    /\ UNCHANGED <<aside, phase, exitCode, listening, verifier, transports, closed,
                   created, last, elapsed, calls, shutdowns>>

\* A message a transport hands to its dispatcher.  Only tools/call reaches
\* the tool handlers; the event records the call and its immediate reply.
Deliver(sid, body, event) ==
    IF body.kind = "tools/call"
    THEN \E uuid8 \in Uuid8s :
         \E started \in {toolStart(sid, body.call[1], uuid8)} :
             /\ WithinBounds(sid, body.call[1])
             /\ calls' = IF started.suspended THEN calls (+) SetToBag({started.call[1]})
                         ELSE calls
             /\ ev' = [event EXCEPT !.disp = sid, !.tool = body.call[1].tool,
                                    !.args = Some(body.call[1].args),
                                    !.outcome = started.outcome,
                                    !.text = started.text,
                                    !.isError = started.isError,
                                    !.call = started.call]
    ELSE /\ calls' = calls
         /\ ev' = [event EXCEPT !.disp = sid]

\* Mutation of mcpBranch: a handshake is accepted whatever id it carries.
mcpBranchAnyHandshake(method, sid, body) ==
    IF sid # "" /\ Registered(sid)
    THEN IF transports[sid].kind = "streamable" THEN "existing" ELSE "mismatch"
    ELSE IF method = "POST" /\ body.kind = "initialize" THEN "initialize"
    ELSE "invalid"

\* Mutation of mcpBranch: any registered transport is taken as it is.
mcpBranchAnyKind(method, sid, body) ==
    IF sid # "" /\ Registered(sid) THEN "existing"
    ELSE IF sid = "" /\ method = "POST" /\ body.kind = "initialize" THEN "initialize"
    ELSE "invalid"

\* Which branch of app.all("/mcp") a request takes (http.ts:115-164).
mcpBranch(method, sid, body) ==
    IF sid # "" /\ Registered(sid)
    THEN IF transports[sid].kind = "streamable" THEN "existing" ELSE "mismatch"
    ELSE IF sid = "" /\ method = "POST" /\ body.kind = "initialize" THEN "initialize"
    ELSE "invalid"

\* /mcp with the id of a registered Streamable HTTP transport: the transport
\* handles the request.  DELETE ends the session: the transport closes and
\* its onclose handler runs.
McpExisting(R) ==
    /\ phase = "serving"
    /\ \E r \in R :
          /\ Route(r.method, r.path) = "mcp"
          /\ mcpBranch(r.method, r.sid, r.body) = "existing"
          /\ Verdict(r) # "denied"
          /\ IF r.method = "POST"
             THEN /\ Deliver(r.sid, r.body, HttpEvent(r, 200, "transport"))
                  /\ UNCHANGED <<transports, closed>>
             ELSE IF r.method = "DELETE"
             THEN /\ transports' = onclose(r.sid)
                  /\ closed' = closed \cup {r.sid}
                  /\ ev' = HttpEvent(r, 200, "transport")
                  /\ calls' = calls
             ELSE /\ ev' = HttpEvent(r, 200, "transport")
                  /\ UNCHANGED <<transports, closed, calls>>
    /\ UNCHANGED <<aside, phase, exitCode, listening, verifier, created, last, elapsed,
                   shutdowns>>

\* /mcp with the id of a transport of the other kind.
McpMismatch(R) ==
    /\ phase = "serving"
    /\ \E r \in R :
          /\ Route(r.method, r.path) = "mcp"
          /\ mcpBranch(r.method, r.sid, r.body) = "mismatch"
          /\ Verdict(r) # "denied"
          /\ ev' = HttpEvent(r, 400, "mcp")
    /\ UNCHANGED <<aside, phase, exitCode, listening, verifier, transports, closed,
                   created, last, elapsed, calls, shutdowns>>

\* POST /mcp initialize without an id: a new transport and dispatcher.  The
\* transport registers itself when it has initialised the session
\* (onsessioninitialized); a handshake it refuses registers nothing.
McpInitialize(R) ==
    /\ phase = "serving"
    /\ created < MaxSessions
    /\ \E r \in R, accepted \in BOOLEAN :
          /\ Route(r.method, r.path) = "mcp"
          /\ mcpBranch(r.method, r.sid, r.body) = "initialize"
          /\ Verdict(r) # "denied"
          /\ IF accepted
             THEN LET sid == IdPool[created + 1]
                  IN  /\ transports' = Register(sid, "streamable")
                      /\ last' = NewDispatcher(last, sid, Undefined)
                      /\ elapsed' = NewDispatcher(elapsed, sid, 0)
                      /\ created' = created + 1
                      /\ ev' = [HttpEvent(r, 200, "transport") EXCEPT !.disp = sid]
             ELSE /\ ev' = HttpEvent(r, 400, "transport")
                  /\ UNCHANGED <<transports, last, elapsed, created>>
    /\ UNCHANGED <<aside, phase, exitCode, listening, verifier, closed, calls, shutdowns>>

\* /mcp with no usable id: 400 "No valid session ID provided".
McpInvalid(R) ==
    /\ phase = "serving"
    /\ \E r \in R :
          /\ Route(r.method, r.path) = "mcp"
          /\ mcpBranch(r.method, r.sid, r.body) = "invalid"
          /\ Verdict(r) # "denied"
          /\ ev' = HttpEvent(r, 400, "mcp")
    /\ UNCHANGED <<aside, phase, exitCode, listening, verifier, transports, closed,
                   created, last, elapsed, calls, shutdowns>>

\* GET /sse: a legacy transport, registered under its own id at once.
SseConnect(R) ==
    /\ phase = "serving"
    /\ created < MaxSessions
    /\ \E r \in R :
          /\ Route(r.method, r.path) = "sse"
          /\ Verdict(r) # "denied"
          /\ LET sid == IdPool[created + 1]
             IN  /\ transports' = Register(sid, "sse")
                 /\ last' = NewDispatcher(last, sid, Undefined)
                 /\ elapsed' = NewDispatcher(elapsed, sid, 0)
                 /\ created' = created + 1
                 /\ ev' = [HttpEvent(r, 200, "sse") EXCEPT !.disp = sid]
    /\ UNCHANGED <<aside, phase, exitCode, listening, verifier, closed, calls, shutdowns>>

\* The guard of app.post("/messages") (http.ts:210).
isSseTransport(sid) == Registered(sid) /\ transports[sid].kind = "sse"

MessagesPost(R) ==
    /\ phase = "serving"
    /\ \E r \in R :
          /\ Route(r.method, r.path) = "messages"
          /\ Verdict(r) # "denied"
          /\ IF isSseTransport(r.sid)
             THEN Deliver(r.sid, r.body, HttpEvent(r, 202, "transport"))
             ELSE /\ ev' = HttpEvent(r, 400, "messages")
                  /\ calls' = calls
    /\ UNCHANGED <<aside, phase, exitCode, listening, verifier, transports, closed,
                   created, last, elapsed, shutdowns>>

\* A registered transport closes by itself (the client ends the session, the
\* connection drops): transport.onclose, or res.on("close") for /sse.
TransportCloses ==
    /\ phase = "serving"
    /\ \E sid \in DOMAIN transports :
          /\ transports' = IF transports[sid].kind = "streamable" THEN onclose(sid)
                            ELSE Unregister(sid)
          /\ closed' = closed \cup {sid}
          /\ ev' = [NoEvent EXCEPT !.kind = "close", !.sessionId = sid]
    /\ UNCHANGED <<aside, phase, exitCode, listening, verifier, created, last, elapsed,
                   calls, shutdowns>>

(***************************************************************************)
(* Time passes.  mcp.ts keeps no timestamp; `elapsed` is the wall-clock    *)
(* age of each dispatcher's Session, measured against the expiry window    *)
(* of utils/session.ts.                                                    *)
(***************************************************************************)
SESSION_EXPIRY_MS == 60 * 60 * 1000

TickMs == SESSION_EXPIRY_MS + 1

Expired(age) == age > SESSION_EXPIRY_MS

Tick ==
    /\ phase = "serving"
    /\ \E d \in DOMAIN last : IsDefined(last[d]) /\ ~Expired(elapsed[d])
    /\ elapsed' = [d \in DOMAIN elapsed |->
                      IF IsDefined(last[d]) /\ ~Expired(elapsed[d])
                      THEN elapsed[d] + TickMs ELSE elapsed[d]]
    /\ ev' = [NoEvent EXCEPT !.kind = "tick"]
    /\ UNCHANGED <<aside, phase, exitCode, listening, verifier, transports, closed,
                   created, last, calls, shutdowns>>

(***************************************************************************)
(* http.ts:231-250: shutdown(signal).  The synchronous part stops the      *)
(* listener, snapshots the registry keys and calls close() on each; every  *)
(* close() settles later (resolved or rejected), its `finally` deletes the *)
(* key, and process.exit(0) follows Promise.all.                           *)
(***************************************************************************)
Signal ==
    /\ phase = "serving"
    /\ Len(shutdowns) < MaxSignals
    /\ listening' = FALSE
    /\ shutdowns' = Append(shutdowns, [ids     |-> DOMAIN transports,
                                       pending |-> DOMAIN transports,
                                       threw   |-> {}])
    /\ ev' = [NoEvent EXCEPT !.kind = "signal"]
    /\ UNCHANGED <<aside, phase, exitCode, verifier, transports, closed, created, last,
                   elapsed, calls>>

\* Mutation of afterCloseAttempt: the delete in the try block, not in finally.
afterCloseAttemptNoFinally(sid, threw) == IF threw THEN transports ELSE Unregister(sid)

\* The registry after the try/catch/finally around one close() has run.
afterCloseAttempt(sid, threw) == Unregister(sid)

\* One close() of a shutdown settles: it resolved (the transport is closed)
\* or it rejected (the transport may still be open).
CloseSettles ==
    /\ phase = "serving"
    /\ \E k \in 1..Len(shutdowns) : \E sid \in shutdowns[k].pending :
       \E threw \in BOOLEAN, stillOpen \in BOOLEAN :
          /\ stillOpen => threw
          /\ shutdowns' = [shutdowns EXCEPT
                              ![k].pending = @ \ {sid},
                              ![k].threw = IF threw THEN @ \cup {sid} ELSE @]
          /\ transports' = afterCloseAttempt(sid, threw)
          /\ closed' = IF stillOpen THEN closed ELSE closed \cup {sid}
          /\ ev' = [NoEvent EXCEPT !.kind = "closed", !.sessionId = sid,
                                   !.isError = threw]
    /\ UNCHANGED <<aside, phase, exitCode, listening, verifier, created, last, elapsed,
                   calls>>

\* Promise.all of one shutdown has settled: process.exit(0).
Exit ==
    /\ phase = "serving"
    /\ \E k \in 1..Len(shutdowns) : shutdowns[k].pending = {}
    /\ phase' = "exited"
    /\ exitCode' = Some(0)
    /\ ev' = [NoEvent EXCEPT !.kind = "exit"]
    /\ UNCHANGED <<aside, listening, verifier, transports, closed, created, last,
                   elapsed, calls, shutdowns>>

(***************************************************************************)
(* Specifications.                                                         *)
(*   Spec      authenticated clients open sessions and call the tools;     *)
(*   SpecClock the same, with time passing;                                *)
(*   SpecHttp  the pipeline with every request shape and credential,       *)
(*             transports closing, and shutdown.                           *)
(***************************************************************************)
Next ==
    \/ StartHttpServer
    \/ McpInitialize(ToolRequests)
    \/ McpExisting(ToolRequests)
    \/ CompleteCall

Spec == Init /\ [][Next]_vars

NextClock ==
    \/ Next
    \/ Tick

SpecClock == Init /\ [][NextClock]_vars

NextHttp ==
    \/ StartHttpServer
    \/ Healthz(HttpRequests)
    \/ Unauthorized(HttpRequests)
    \/ NotFound(HttpRequests)
    \/ FilesGet(HttpRequests)
    \/ McpExisting(HttpRequests)
    \/ McpMismatch(HttpRequests)
    \/ McpInitialize(HttpRequests)
    \/ McpInvalid(HttpRequests)
    \/ SseConnect(HttpRequests)
    \/ MessagesPost(HttpRequests)
    \/ TransportCloses
    \/ Signal
    \/ CloseSettles
    \/ Exit

SpecHttp == Init /\ [][NextHttp]_vars

(***************************************************************************)
(* Properties of the tool handlers (Spec, SpecClock).  A step that starts  *)
(* a tool call leaves ev'.kind = "http" and ev'.tool set; a step that      *)
(* resumes one leaves ev'.kind = "result".                                 *)
(***************************************************************************)
\* The generate_image arguments whose prompt classifies "low" and that name
\* no type.
LowConfidenceUntyped ==
    {a \in GenerateArgs :
        a.type = "auto" /\ detectTypeWithConfidence(a.prompt).confidence = "low"}

\* C1: a generate_image call whose prompt classifies with confidence "low"
\* and that carries no explicit type returns the clarifying question,
\* suspends no call on the generator, and leaves every Session as it was.
C1_ClarifyLeavesSession ==
    [][(ev'.kind = "http" /\ ev'.tool = "generate_image"
        /\ ev'.args[1] \in LowConfidenceUntyped)
       => /\ ev'.outcome = "clarify"
          /\ ~ev'.isError
          /\ StartsWith(ev'.text, "I'm not certain about the best visualization type.")
          /\ ev'.call = Undefined
          /\ calls' = calls
          /\ last' = last]_vars

\* C1 happens: the question was returned on a dispatcher that holds a Session.
C1_Witness ==
    /\ ev.kind = "http" /\ ev.tool = "generate_image" /\ ev.outcome = "clarify"
    /\ ev.args[1] \in LowConfidenceUntyped
    /\ IsDefined(last[ev.disp])

\* C2: the Session a call on one registered session id reads or writes is
\* never that of another id: `last` of a dispatcher changes only when a call
\* of that dispatcher succeeds, a refine_image uses the prompt, location and
\* composition parameters its own dispatcher stored, and it answers "call
\* generate first" when its own dispatcher has none.
C2_SessionsAreIsolated ==
    [][/\ \A d \in DOMAIN last :
             last'[d] # last[d]
             => ev'.kind = "result" /\ ev'.disp = d /\ ev'.outcome = "ok"
       /\ (ev'.kind = "http" /\ ev'.tool = "refine_image")
          => IF IsDefined(last[ev'.disp])
             THEN /\ ev'.outcome = "pending"
                  /\ ev'.call[1].disp = ev'.disp
                  /\ ev'.call[1].prompt = last[ev'.disp][1].lastPrompt
                  /\ \E u \in Uuid8s :
                        ev'.call[1].outputPath
                        = refinedPathOf(last[ev'.disp][1].lastOutputPath, u)
                  /\ ev'.call[1].options
                     = [type        |-> Some(last[ev'.disp][1].lastType),
                        aspectRatio |-> last[ev'.disp][1].aspectRatio,
                        size        |-> last[ev'.disp][1].size]
             ELSE ev'.outcome = "noprior"
       /\ (ev'.kind = "result" /\ ev'.tool = "refine_image" /\ ev'.outcome = "ok")
          => /\ last'[ev'.disp][1].lastType = last[ev'.disp][1].lastType
             /\ last'[ev'.disp][1].lastPrompt
                = last[ev'.disp][1].lastPrompt \o REFINEMENT_MARK \o ev'.call[1].refinement]_vars

\* C2 happens: two dispatchers hold different Sessions and a refine_image on
\* one of them was started from its own.
C2_Witness ==
    /\ ev.kind = "http" /\ ev.tool = "refine_image" /\ ev.outcome = "pending"
    /\ \E other \in DOMAIN last \ {ev.disp} :
          /\ IsDefined(last[other]) /\ IsDefined(last[ev.disp])
          /\ last[other][1].lastPrompt # last[ev.disp][1].lastPrompt
          /\ ev.call[1].prompt = last[ev.disp][1].lastPrompt

\* C3: a refine_image call on a dispatcher that has had no successful
\* generate_image returns "No previous image to refine. Use generate_image
\* first.", suspends no call on the generator and leaves the Session absent;
\* and only a successful generate_image makes a Session exist.
C3_RefineWithoutSession ==
    [][/\ (ev'.kind = "http" /\ ev'.tool = "refine_image"
           /\ ~IsDefined(last[ev'.disp]))
          => /\ ev'.outcome = "noprior"
             /\ ev'.isError
             /\ ev'.text = "No previous image to refine. Use generate_image first."
             /\ calls' = calls
             /\ last' = last
       /\ \A d \in DOMAIN last :
             (~IsDefined(last[d]) /\ IsDefined(last'[d]))
             => /\ ev'.kind = "result" /\ ev'.tool = "generate_image"
                /\ ev'.outcome = "ok" /\ ev'.disp = d]_vars

\* C3 happens: refine_image was refused on a dispatcher whose generate_image
\* is still suspended.
C3_Witness ==
    /\ ev.kind = "http" /\ ev.tool = "refine_image" /\ ev.outcome = "noprior"
    /\ ~IsDefined(last[ev.disp])
    /\ \E c \in BagToSet(calls) : c.disp = ev.disp /\ c.tool = "generate_image"

\* The failure reasons GeminiImageClient.generate reports for the service
\* behaviours of the model.
FailureReasons ==
    {generate("p", OUTPUT_DIR \o "/p.png",
              [type |-> Some("chart"), aspectRatio |-> Undefined, size |-> Undefined],
              b.tried, b.data, b.fs).error : b \in ServiceBehaviours} \ {""}

\* C4: when the generator fails during generate_image or refine_image
\* (nothing was saved), the call returns an error result that carries the
\* failure reason, and every Session equals its value before the call resumed.
C4_FailureLeavesSession ==
    [][(ev'.kind = "result" /\ ~IsDefined(ev'.saved))
       => /\ ev'.outcome = "failed"
          /\ ev'.isError
          /\ \E r \in FailureReasons :
                ev'.text \in {"Failed to generate image: " \o r,
                              "Failed to refine image: " \o r}
          /\ last' = last]_vars

\* C4 happens: a call failed after its retries on a dispatcher that holds a
\* Session.
C4_Witness ==
    /\ ev.kind = "result" /\ ev.outcome = "failed"
    /\ ev.attempts = MAX_RETRIES
    /\ IsDefined(last[ev.disp])

\* The calls of dispatcher d suspended on the generator.
SuspendedOn(d) ==
    BagCardinality([c \in {x \in BagToSet(calls) : x.disp = d} |-> calls[c]])

\* C9: at most one tool call is in progress for a session: while a call of
\* a dispatcher is suspended on the generator, no second call of the same
\* dispatcher is.
C9_OneCallInProgress == \A d \in DOMAIN last : SuspendedOn(d) <= 1

\* C10: on a dispatcher whose Session is older than the time-to-live,
\* refine_image returns "call generate first" and suspends no call on the
\* generator.
C10_ExpiredSessionRefused ==
    [][(ev'.kind = "http" /\ ev'.tool = "refine_image"
        /\ IsDefined(last[ev'.disp]) /\ Expired(elapsed[ev'.disp]))
       => ev'.outcome = "noprior" /\ calls' = calls]_vars

(***************************************************************************)
(* Properties of the HTTP pipeline and of shutdown (SpecHttp).             *)
(***************************************************************************)
\* C5: every request to /mcp, /sse, /messages and /files is verified before
\* its handler runs; a request the verifier denies is answered 401, reaches
\* no handler and changes nothing; only GET /healthz is served (200)
\* without verification.
C5_AuthBeforeHandlers ==
    [][ev'.kind = "http"
       => LET allowed == VerifiedOf[verifier][ev'.cred[1]].ok
              healthz == ev'.method = "GET" /\ ev'.path = "/healthz"
          IN  /\ healthz => ev'.status = 200 /\ ev'.handler = "healthz"
              /\ (~healthz /\ ~allowed)
                 => /\ ev'.status = 401
                    /\ ev'.handler = "none"
                    /\ ev'.disp = ""
                    /\ UNCHANGED <<transports, closed, created, last, elapsed,
                                   calls, shutdowns>>
              /\ ev'.handler \in {"files", "mcp", "sse", "messages", "transport"}
                 => allowed]_vars

\* C5 happens: a denied DELETE /mcp that names a registered session.
C5_Witness ==
    /\ ev.kind = "http" /\ ev.status = 401
    /\ ev.method = "DELETE" /\ ev.path = "/mcp"
    /\ ev.sessionId \in DOMAIN transports

\* C6: a request that names a registered identifier on the endpoint of the
\* other transport kind is rejected with 400, is not handed to that
\* transport, and leaves the registry and the dispatchers untouched.
C6_OtherKindRejected ==
    [][(/\ ev'.kind = "http" /\ ev'.verified = "ok"
        /\ ev'.sessionId \in DOMAIN transports
        /\ \/ ev'.path = "/mcp" /\ transports[ev'.sessionId].kind = "sse"
           \/ /\ ev'.method = "POST" /\ ev'.path = "/messages"
              /\ transports[ev'.sessionId].kind = "streamable")
       => /\ ev'.status = 400
          /\ ev'.handler # "transport"
          /\ ev'.disp = ""
          /\ UNCHANGED <<transports, closed, created, last, elapsed, calls>>]_vars

\* C6 happens: POST /messages with the id of a Streamable HTTP session.
C6_Witness ==
    /\ ev.kind = "http" /\ ev.method = "POST" /\ ev.path = "/messages"
    /\ ev.status = 400
    /\ ev.sessionId \in DOMAIN transports
    /\ transports[ev.sessionId].kind = "streamable"

\* C7: the identifier of a transport that has closed is not in the
\* registry, and every later /mcp or /messages request that carries it is
\* rejected with 400 and reaches no transport or dispatcher.
C7_ClosedIdsRejected ==
    [][/\ closed' \cap DOMAIN transports' = {}
       /\ (/\ ev'.kind = "http" /\ ev'.verified = "ok"
           /\ ev'.sessionId \in closed
           /\ ev'.path \in {"/mcp", "/messages"})
          => /\ ev'.status = 400
             /\ ev'.handler # "transport"
             /\ ev'.disp = ""
             /\ UNCHANGED <<transports, closed, created, last, elapsed, calls>>]_vars

\* C7 happens: POST /mcp with the id of a closed transport.
C7_Witness ==
    /\ ev.kind = "http" /\ ev.method = "POST" /\ ev.path = "/mcp"
    /\ ev.sessionId \in closed
    /\ ev.status = 400

C8_ShutdownState ==
    /\ shutdowns # <<>> => ~listening
    /\ \A k \in 1..Len(shutdowns) :
          /\ shutdowns[k].pending \subseteq shutdowns[k].ids
          /\ shutdowns[k].threw \subseteq shutdowns[k].ids \ shutdowns[k].pending
          /\ (shutdowns[k].ids \ shutdowns[k].pending) \cap DOMAIN transports = {}
    /\ exitCode = Some(0) => \E k \in 1..Len(shutdowns) : shutdowns[k].pending = {}
    /\ (phase = "serving" /\ \E k \in 1..Len(shutdowns) : shutdowns[k].pending # {})
       => ENABLED CloseSettles
    /\ (phase = "serving" /\ \E k \in 1..Len(shutdowns) : shutdowns[k].pending = {})
       => ENABLED Exit

C8_ShutdownStep ==
    Len(shutdowns') > Len(shutdowns)
    => /\ ~listening'
       /\ shutdowns'[Len(shutdowns')].ids = DOMAIN transports
       /\ shutdowns'[Len(shutdowns')].pending = DOMAIN transports
       /\ transports' = transports

\* C8: a signal stops the listener first and attempts close() on every
\* transport registered at that moment; a close() that throws prevents
\* neither the other closes nor the exit; every identifier whose close has
\* settled is out of the registry; and the process exits with code 0 only
\* after all close attempts of a shutdown have settled.
C8_GracefulShutdown == []C8_ShutdownState /\ [][C8_ShutdownStep]_vars

\* C8 happens: the process exited with code 0 after a shutdown closed two
\* transports, one of whose close() threw.
C8_Witness ==
    /\ exitCode = Some(0)
    /\ \E k \in 1..Len(shutdowns) :
          /\ Cardinality(shutdowns[k].ids) >= 2
          /\ shutdowns[k].threw # {}
          /\ shutdowns[k].threw # shutdowns[k].ids

(***************************************************************************)
(* utils/session.ts: the file-backed session store.  SESSION_FILE holds    *)
(* one Session stamped with Date.now() at the time it was saved; the file  *)
(* system is taken to be reliable.                                         *)
(***************************************************************************)
\* What saveSession is called with: a Session without its timestamp.
StoredSessions ==
    {[lastPrompt |-> "data flow", lastOutput |-> "/data/out/data_flow_0a1b2c3d.png",
      lastType |-> "chart", aspectRatio |-> Some("16:9"), size |-> Some("2K")],
     [lastPrompt |-> "Org chart", lastOutput |-> "/data/out/team.png",
      lastType |-> "hierarchy", aspectRatio |-> Some("1:1"), size |-> Undefined]}

\* How far the clock moves between two calls, and where the model stops it.
ClockSteps == {1, SESSION_EXPIRY_MS}

\* The clock stops after MaxHours expiry windows and, within each, after
\* MaxDrift single milliseconds.
MaxHours == 2

MaxDrift == 2

ClockLimit == MaxHours * SESSION_EXPIRY_MS + MaxDrift

clearSession(file) == Undefined

\* Mutation of loadSession: an expired Session is reported absent but the
\* file is left in place.
loadSessionKeepsExpired(file, t) ==
    IF ~IsDefined(file) THEN [session |-> Undefined, file |-> file]
    ELSE IF t - file[1].timestamp > SESSION_EXPIRY_MS
    THEN [session |-> Undefined, file |-> file]
    ELSE [session |-> file, file |-> file]

\* loadSession at time t: what it returns and what it leaves on disk.
loadSession(file, t) ==
    IF ~IsDefined(file) THEN [session |-> Undefined, file |-> file]
    ELSE IF t - file[1].timestamp > SESSION_EXPIRY_MS
    THEN [session |-> Undefined, file |-> clearSession(file)]
    ELSE [session |-> file, file |-> file]

\* saveSession at time t: what it leaves on disk.
saveSession(session, t) ==
    Some([lastPrompt  |-> session.lastPrompt,
          lastOutput  |-> session.lastOutput,
          lastType    |-> session.lastType,
          aspectRatio |-> session.aspectRatio,
          size        |-> session.size,
          timestamp   |-> t])

LoadSession ==
    /\ \E loaded \in {loadSession(sessionFile, now)} :
          /\ sessionFile' = loaded.file
          /\ probe' = [fn |-> "loadSession", file |-> sessionFile, at |-> now,
                       session |-> loaded.session]
    /\ UNCHANGED <<serverVars, now>>

SaveSession ==
    /\ \E session \in StoredSessions :
          /\ sessionFile' = saveSession(session, now)
          /\ probe' = [fn |-> "saveSession", file |-> sessionFile, at |-> now,
                       session |-> Some(session)]
    /\ UNCHANGED <<serverVars, now>>

ClearSession ==
    /\ sessionFile' = clearSession(sessionFile)
    /\ probe' = [fn |-> "clearSession", file |-> sessionFile, at |-> now,
                 session |-> Undefined]
    /\ UNCHANGED <<serverVars, now>>

\* Time passes between two calls.
Advance ==
    /\ \E step \in ClockSteps :
          /\ now + step <= ClockLimit
          /\ step = 1 => now % SESSION_EXPIRY_MS < MaxDrift
          /\ now' = now + step
    /\ probe' = [fn |-> "clock", file |-> sessionFile, at |-> now,
                 session |-> Undefined]
    /\ UNCHANGED <<serverVars, sessionFile>>

NextStore == LoadSession \/ SaveSession \/ ClearSession \/ Advance

SpecStore == Init /\ [][NextStore]_vars

\* C11: loadSession returns absent for a stored Session whose timestamp is
\* more than SESSION_EXPIRY_MS before now and removes the file; a Session
\* within the window is returned as stored and the file is kept; saveSession
\* replaces whatever is stored by its argument stamped with the current time.
C11_LazyExpiry ==
    [][/\ probe'.fn = "loadSession"
          => IF ~IsDefined(sessionFile)
             THEN probe'.session = Undefined /\ sessionFile' = Undefined
             ELSE IF now - sessionFile[1].timestamp > SESSION_EXPIRY_MS
             THEN probe'.session = Undefined /\ sessionFile' = Undefined
             ELSE probe'.session = sessionFile /\ sessionFile' = sessionFile
       /\ probe'.fn = "saveSession"
          => /\ IsDefined(sessionFile')
             /\ sessionFile'[1].timestamp = now
             /\ \E s \in StoredSessions :
                   /\ probe'.session = Some(s)
                   /\ \A f \in DOMAIN s : sessionFile'[1][f] = s[f]]_vars

\* C11 happens: a Session stored over an hour ago was read, reported absent
\* and removed.
C11_Witness ==
    /\ probe.fn = "loadSession"
    /\ IsDefined(probe.file)
    /\ probe.at - probe.file[1].timestamp > SESSION_EXPIRY_MS
    /\ probe.session = Undefined
    /\ sessionFile = Undefined

(***************************************************************************)
(* Properties of a chain of refinements (Spec).                            *)
(***************************************************************************)
\* C12: a refine_image on a dispatcher that holds a Session writes to a
\* location different from the Session's artifact: in the same directory,
\* named by the prior stem, the refinement marker, a disambiguator and
\* ".png"; and a successful refine saved exactly there.
C12_RefineNeverOverwrites ==
    [][/\ (ev'.kind = "http" /\ ev'.tool = "refine_image" /\ IsDefined(last[ev'.disp]))
          => LET prior == last[ev'.disp][1].lastOutputPath
                 path  == ev'.call[1].outputPath
             IN  /\ path # prior
                 /\ Dirname(path) = Dirname(prior)
                 /\ \E u \in Uuid8s :
                       Basename(path)
                       = BasenameExt(prior, Extname(prior)) \o "_refined_" \o u \o ".png"
       /\ (ev'.kind = "result" /\ ev'.tool = "refine_image" /\ ev'.outcome = "ok")
          => /\ ev'.saved = Some(ev'.call[1].outputPath)
             /\ last'[ev'.disp][1].lastOutputPath = ev'.call[1].outputPath]_vars

\* C12 happens: a refinement succeeded and the Session now names the refined
\* artifact.
C12_Witness ==
    /\ ev.kind = "result" /\ ev.tool = "refine_image" /\ ev.outcome = "ok"
    /\ last[ev.disp][1].lastOutputPath = ev.saved[1]
    /\ refinementDepth(ev.saved[1]) = 1

\* What the generation client sends to the service for a suspended call.
RequestOf(call) ==
    buildPromptFromContext(
        IF call.tool = "generate_image" THEN call.prompt
        ELSE combinedPrompt(call.prompt, call.refinement),
        [call.options EXCEPT !.type = IF call.options.type = Some("auto")
                                      THEN Undefined ELSE call.options.type])

\* C13: every refine_image invokes the generator with the category, aspect
\* ratio and resolution tier its Session recorded (the call's options), with
\* no new classification, and after a successful refine the Session holds
\* those same three values.
C13_RefineInheritsComposition ==
    [][(ev'.kind = "result" /\ ev'.tool = "refine_image")
       => LET call == ev'.call[1]
          IN  /\ RequestOf(call).diagramType = call.options.type[1]
              /\ Some(RequestOf(call).aspectRatio) = call.options.aspectRatio
              /\ ev'.outcome = "ok"
                 => /\ Some(last'[ev'.disp][1].lastType) = call.options.type
                    /\ last'[ev'.disp][1].aspectRatio = call.options.aspectRatio
                    /\ last'[ev'.disp][1].size = call.options.size]_vars

(***************************************************************************)
(* One client of one Streamable HTTP session that keeps the order in which *)
(* it sent its tool calls (SpecChain).  probe.sent lists them in call      *)
(* order, each with its outcome once it has one.                           *)
(***************************************************************************)
\* The client sends at most MaxChain calls.
MaxChain == 3

ChainRefinements == RefineArgs \cup {[refinement |-> "add a legend"]}

ChainCalls ==
    {[tool |-> "generate_image", args |-> a] : a \in GenerateArgs}
    \cup {[tool |-> "refine_image", args |-> a] : a \in ChainRefinements}

ChainSent == IF probe.fn = "chain" THEN probe.sent ELSE <<>>

\* The text a call contributes to the stored prompt.
TextOf(tc) == IF tc.tool = "generate_image" THEN tc.args.prompt ELSE tc.args.refinement

FrameText(call) == IF call.tool = "generate_image" THEN call.prompt ELSE call.refinement

Pending(sent, tool, text) ==
    {k \in 1..Len(sent) :
        sent[k].tool = tool /\ sent[k].text = text /\ sent[k].outcome = "pending"}

\* The client's request reaches the session's transport and the dispatcher
\* starts the call.
ChainCall ==
    /\ phase = "serving"
    /\ Len(ChainSent) < MaxChain
    /\ \E sid \in DOMAIN transports, tc \in ChainCalls :
       \E r \in {[method |-> "POST", path |-> "/mcp", cred |-> ValidCredential,
                  sid |-> sid, body |-> [kind |-> "tools/call", call |-> Some(tc)]]} :
          /\ probe.fn = "chain" => probe.sid = sid
          /\ Pending(ChainSent, tc.tool, TextOf(tc)) = {}
          /\ mcpBranch(r.method, r.sid, r.body) = "existing"
          /\ Verdict(r) # "denied"
          /\ Deliver(r.sid, r.body, HttpEvent(r, 200, "transport"))
          /\ probe' = [fn |-> "chain", sid |-> sid,
                       sent |-> Append(ChainSent,
                                       [tool |-> tc.tool, text |-> TextOf(tc),
                                        outcome |-> ev'.outcome])]
    /\ UNCHANGED <<sessionFile, now, phase, exitCode, listening, verifier,
                   transports, closed, created, last, elapsed, shutdowns>>

\* One of the client's calls resumes; its outcome is noted where it was sent.
ChainComplete ==
    /\ phase = "serving"
    /\ probe.fn = "chain"
    /\ \E call \in BagToSet(calls), b \in ServiceBehaviours :
          /\ call.disp = probe.sid
          /\ Complete(call, b)
          /\ \E k \in Pending(probe.sent, call.tool, FrameText(call)) :
                probe' = [probe EXCEPT !.sent[k].outcome = ev'.outcome]
    /\ UNCHANGED <<sessionFile, now, phase, exitCode, listening, verifier,
                   transports, closed, created, shutdowns>>

NextChain ==
    StartHttpServer \/ McpInitialize(ToolRequests) \/ ChainCall \/ ChainComplete

SpecChain == Init /\ [][NextChain]_vars

\* The prompt the Session should hold after the calls of `sent` that
\* succeeded, taken in call order: a generate_image replaces it, a
\* refine_image appends its text.
RECURSIVE ExpectedPrompt(_)
ExpectedPrompt(sent) ==
    IF sent = <<>> THEN Undefined
    ELSE LET before == ExpectedPrompt(SubSeq(sent, 1, Len(sent) - 1))
             e      == sent[Len(sent)]
         IN  IF e.outcome # "ok" THEN before
             ELSE IF e.tool = "generate_image" THEN Some(e.text)
             ELSE IF IsDefined(before)
             THEN Some(before[1] \o REFINEMENT_MARK \o e.text)
             ELSE before

\* C14: once the calls a client sent have all returned, the stored prompt is
\* the prompt of the last successful generate_image followed by the texts of
\* the successful refine_image calls sent after it, each once and in call
\* order, with nothing left of what was sent before that generate_image.
C14_PromptIsCallHistory ==
    (probe.fn = "chain" /\ \A k \in 1..Len(probe.sent) : probe.sent[k].outcome # "pending")
    => IF IsDefined(ExpectedPrompt(probe.sent))
       THEN /\ IsDefined(last[probe.sid])
            /\ last[probe.sid][1].lastPrompt = ExpectedPrompt(probe.sent)[1]
       ELSE ~IsDefined(last[probe.sid])

(***************************************************************************)
(* auth.ts on its own (SpecAuth): a verifier is built from an environment  *)
(* and asked about requests.  probe holds the environment, the verifier    *)
(* and the last request with its AuthResult.                               *)
(***************************************************************************)
AuthEnvironments ==
    {[GEMINI_API_KEY |-> Some("key"), MCP_AUTH_MODE |-> m,
      MCP_AUTH_TOKEN |-> t[1], MCP_AUTH_TOKENS |-> t[2],
      MCP_ALLOW_QUERY_TOKEN |-> q, OIDC_ISSUER |-> Some("https://issuer.example")] :
        m \in {Undefined, Some("static"), Some("oidc"), Some("none"), Some(" OFF "),
               Some("Disabled"), Some("nope"), Some(""), Some("false")},
        t \in {<<Some("s3cret"), Undefined>>,
               <<Some("unused"), Some("alpha, s3cret")>>,
               <<Undefined, Undefined>>},
        q \in {Undefined, Some("0"), Some("1"), Some("false")}}

AuthCredentials ==
    {[authorization |-> h, queryToken |-> q] :
        h \in {Undefined, Some("Bearer s3cret"), Some("bearer   alpha"),
               Some("Bearer s3cret "), Some("Bearer s3cre"), Some("Bearer s3cret,alpha"),
               Some("Basic s3cret"), Some("s3cret"), Some("Bearer jwt.valid"),
               Some("Bearer jwt.forged")},
        q \in {Undefined, Some("s3cret"), Some("S3CRET"), Some(""), Some("jwt.valid")}}

\* The verifiers the environments yield (constant: evaluated once).
AuthVerifiers ==
    {VerifierFromEnv(env, TRUE) : env \in AuthEnvironments} \ {Undefined}

\* verifyRequest of each of them for each request (constant: evaluated once).
AuthResultOf ==
    [v \in AuthVerifiers |-> [c \in AuthCredentials |-> verifyRequest(v[1], c)]]

\* createTokenAuthVerifierFromEnv / createOidcAuthVerifierFromEnv for one
\* environment; construction may throw.
BuildVerifier ==
    /\ \E env \in AuthEnvironments, discoveryOk \in BOOLEAN :
          probe' = [fn |-> "createVerifier", env |-> env,
                    verifier |-> VerifierFromEnv(env, discoveryOk)]
    /\ UNCHANGED <<serverVars, sessionFile, now>>

\* verifier.verifyRequest(req) on the verifier built last.
VerifyRequest ==
    /\ probe.fn \in {"createVerifier", "verifyRequest"}
    /\ IsDefined(probe.verifier)
    /\ \E req \in AuthCredentials :
          probe' = [fn |-> "verifyRequest", env |-> probe.env,
                    verifier |-> probe.verifier, req |-> req,
                    result |-> AuthResultOf[probe.verifier][req]]
    /\ UNCHANGED <<serverVars, sessionFile, now>>

NextAuth == BuildVerifier \/ VerifyRequest

SpecAuth == Init /\ [][NextAuth]_vars

\* The header is a Bearer header: the scheme in any case, then whitespace,
\* then at least one more character.
IsBearerHeader(h) ==
    /\ IsDefined(h)
    /\ Len(h[1]) >= 8
    /\ \E scheme \in {"Bearer", "bearer", "BEARER"}, sp \in {" ", "\t"} :
          SubSeq(h[1], 1, 7) = scheme \o sp

\* The request presents exactly t: as the whole of a Bearer header after
\* the scheme, or, with no Bearer header and the query parameter enabled,
\* as the whole of ?token=.
Presents(req, t, allowQueryToken) ==
    \/ \E scheme \in {"Bearer", "bearer"}, sp \in {" ", "   "} :
          req.authorization = Some(scheme \o sp \o t)
    \/ /\ ~IsBearerHeader(req.authorization)
       /\ allowQueryToken
       /\ req.queryToken = Some(t)

\* The tokens named by MCP_AUTH_TOKENS, or by MCP_AUTH_TOKEN when that
\* names none.
ConfiguredTokens(env) ==
    IF env.MCP_AUTH_TOKENS = Some("alpha, s3cret") THEN {"alpha", "s3cret"}
    ELSE IF env.MCP_AUTH_TOKEN = Some("s3cret") THEN {"s3cret"}
    ELSE {}

\* C15: in static-token mode verifyRequest allows a request exactly when
\* the credential it presents is, as a whole string, one of the configured
\* tokens; every other request, one without a credential included, is
\* denied with status 401.
C15_StaticTokenExactMatch ==
    (probe.fn = "verifyRequest" /\ probe.verifier[1].mode = "token")
    => /\ probe.result.ok
          <=> \E t \in ConfiguredTokens(probe.env) :
                 Presents(probe.req, t, probe.verifier[1].allowQueryToken)
       /\ ~probe.result.ok => probe.result.status = 401

C15_Witness ==
    /\ probe.fn = "verifyRequest"
    /\ probe.verifier[1].mode = "token"
    /\ probe.req.authorization = Some("Bearer s3cret ")
    /\ probe.req.queryToken = Some("s3cret")
    /\ ~probe.result.ok
    /\ probe.result.status = 401

\* C16: a request whose only credential is a valid ?token= is allowed in
\* static-token mode unless MCP_ALLOW_QUERY_TOKEN is "0", and in OIDC mode
\* only when MCP_ALLOW_QUERY_TOKEN is "1"; otherwise it is denied with 401.
C16_QueryTokenSwitch ==
    (/\ probe.fn = "verifyRequest"
     /\ probe.req.authorization = Undefined
     /\ \/ probe.verifier[1].mode = "token"
           /\ IsDefined(probe.req.queryToken)
           /\ probe.req.queryToken[1] \in ConfiguredTokens(probe.env)
        \/ probe.verifier[1].mode = "oidc"
           /\ IsDefined(probe.req.queryToken)
           /\ probe.req.queryToken[1] \in ValidJwts)
    => LET accepted ==
               IF probe.verifier[1].mode = "token"
               THEN probe.env.MCP_ALLOW_QUERY_TOKEN # Some("0")
               ELSE probe.env.MCP_ALLOW_QUERY_TOKEN = Some("1")
       IN  /\ probe.result.ok <=> accepted
           /\ ~accepted => probe.result.status = 401

C16_Witness ==
    /\ probe.fn = "verifyRequest"
    /\ probe.verifier[1].mode = "oidc"
    /\ probe.env.MCP_ALLOW_QUERY_TOKEN = Undefined
    /\ probe.req.authorization = Undefined
    /\ probe.req.queryToken = Some("jwt.valid")
    /\ ~probe.result.ok
    /\ probe.result.status = 401

\* C17: GET /files/:filename answers 400 for a name that contains a path
\* separator, differs from its basename or does not resolve to a file
\* directly inside the output directory, whether or not such a file exists;
\* 200 and 404 are given only for flat names inside the output directory.
C17_FilesOnlyFlatNames ==
    (ev.kind = "http" /\ ev.handler = "files")
    => LET flat   == ~Includes(ev.text, "/") /\ ev.text = Basename(ev.text)
           inside == Dirname(PathResolve(OUTPUT_DIR, ev.text)) = OUTPUT_DIR
       IN  /\ ev.status \in {200, 400, 404}
           /\ (~flat \/ ~inside) => ev.status = 400
           /\ ev.status = 200 => ev.outcome = "exists"
           /\ ev.status = 404 => ev.outcome = "absent"

C17_Witness ==
    /\ ev.kind = "http" /\ ev.handler = "files"
    /\ ev.text = "../secret.png"
    /\ ev.outcome = "exists"
    /\ ev.status = 400

(***************************************************************************)
(* resolveOutputPath on its own (SpecPaths): the output location chosen    *)
(* for a hint and a prompt under the options of the HTTP server and under  *)
(* those of the stdio server.                                              *)
(***************************************************************************)
\* process.cwd() of the stdio server.
CWD == "/home/dev/project"

\* The options stdio.ts passes to createGeminiDiagramServer.
StdioServerOptions ==
    [outputDir |-> CWD, publicBaseUrl |-> Undefined,
     allowAbsoluteOutput |-> TRUE, allowSubdirsInOutput |-> TRUE]

ServerOptions == {HttpServerOptions, StdioServerOptions}

LongHint == "q3_report_xxxxxxxxxxxxxxxxxxxxxxxxxxxxxxxxxxxxxxxxxxxxxxxxxxxxxxxxxxxxxxxxxxxxxxxxxxxxxxxxxxxxxxxxxxxxxxxxxxxxxxxxxxxxxxxxxxxxxxxxxxxxxxxxxxxxxxxxxxxxxxxxxxxxxxxxxxxxxxxxxxxxxxxxxxxxxxxx"

OutputHints ==
    {Undefined, Some(""), Some("diagram"), Some("Diagram.PNG"), Some("my file.png"),
     Some("/etc/passwd"), Some("/tmp/out.png"), Some("/"), Some(".."), Some("."),
     Some("../../etc/cron.d/x"), Some("a/b.png"), Some("sub/dir/"), Some("   "),
     Some(".png"), Some("../.."), Some("/data/out/../x.png"), Some(LongHint)}

HintPrompts == {"Org chart", "a b", "Data flow: A->B / C", "../../etc"}

\* resolveOutputPath for each of them (constant: evaluated once).
OutputPathOf ==
    [opts \in ServerOptions |-> [output \in OutputHints |-> [prompt \in HintPrompts |->
        [u \in Uuid8s |-> resolveOutputPath(opts.outputDir, output, prompt, opts, u)]]]]

ResolveOutputPath ==
    /\ \E opts \in ServerOptions, output \in OutputHints, prompt \in HintPrompts,
          u \in Uuid8s :
          probe' = [fn |-> "resolveOutputPath", opts |-> opts, output |-> output,
                    prompt |-> prompt, uuid8 |-> u,
                    result |-> OutputPathOf[opts][output][prompt][u]]
    /\ UNCHANGED <<serverVars, sessionFile, now>>

NextPaths == ResolveOutputPath

SpecPaths == Init /\ [][NextPaths]_vars

\* C18: with the HTTP server's options every hint, and no hint, resolves to
\* a file directly inside the output directory, under a name without a path
\* separator; with the stdio server's options an absolute hint is the
\* output location as given.
C18_OutputStaysInOutputDir ==
    (probe.fn = "resolveOutputPath")
    => LET p    == probe.result.outputPath
           name == SubSeq(p, Len(OUTPUT_DIR) + 2, Len(p))
       IN  /\ probe.opts = HttpServerOptions
              => /\ StartsWith(p, OUTPUT_DIR \o "/")
                 /\ ~Includes(name, "/")
                 /\ name \notin {"", ".", ".."}
                 /\ probe.result.filenameForUrl = Some(name)
           /\ (probe.opts = StdioServerOptions /\ IsDefined(probe.output)
               /\ StartsWith(probe.output[1], "/"))
              => p = probe.output[1]

C18_Witness ==
    /\ probe.fn = "resolveOutputPath"
    /\ probe.opts = HttpServerOptions
    /\ probe.output = Some("../../etc/cron.d/x")
    /\ probe.result.outputPath = "/data/out/x.png"

(***************************************************************************)
(* withRetry one iteration at a time (SpecRetry).  probe holds the loop's  *)
(* state: what each call of fn will do (script), the outcomes of the calls *)
(* made, the delays slept, and how the loop ended.                         *)
(***************************************************************************)
\* One iteration of the for loop of withRetry.
retryStep(st) ==
    LET attempt == Len(st.made)
        outcome == st.script[attempt + 1]
        called  == [st EXCEPT !.made = Append(@, outcome)]
    IN  IF outcome = "ok"
        THEN [called EXCEPT !.status = "returned"]
        ELSE IF NonRetryable(outcome)
        THEN [called EXCEPT !.status = "thrown", !.error = outcome]
        ELSE IF attempt < MAX_RETRIES - 1
        THEN [called EXCEPT !.error = outcome,
                            !.delays = Append(@, BASE_DELAY_MS * Pow2(attempt))]
        ELSE [called EXCEPT !.status = "thrown", !.error = outcome]

\* What withRetry hands to GeminiImageClient.generate once it has ended.
RetryResult(st) ==
    [ok |-> st.status = "returned", attempts |-> Len(st.made), delays |-> st.delays,
     error |-> IF st.status = "returned" THEN "" ELSE st.error]

RetryRunning == probe.fn = "withRetry" /\ probe.status = "running"

RetryEnded == probe.fn = "withRetry" /\ probe.status \in {"returned", "thrown"}

\* The request generate has built when it calls withRetry.
RetryRequest ==
    promptContext("data flow", "chart",
                  [type |-> Some("chart"), aspectRatio |-> Undefined, size |-> Undefined])

\* generate calls withRetry; the service will answer as the script says.
RetryBegin ==
    /\ ~RetryRunning
    /\ \E script \in ServiceScripts :
          probe' = [fn |-> "withRetry", script |-> script, made |-> <<>>,
                    delays |-> <<>>, status |-> "running", error |-> "",
                    report |-> Undefined]
    /\ UNCHANGED <<serverVars, sessionFile, now>>

\* One call of fn.
RetryAttempt ==
    /\ RetryRunning
    /\ probe' = retryStep(probe)
    /\ UNCHANGED <<serverVars, sessionFile, now>>

\* generate resumes with what withRetry returned or threw and builds the
\* GenerateResult it returns.
RetryReport ==
    /\ RetryEnded
    /\ probe.report = Undefined
    /\ probe' = [probe EXCEPT !.report =
                    Some(generateFrom(RetryRequest, "/data/out/image.png",
                                      RetryResult(probe), PngImage, "ok"))]
    /\ UNCHANGED <<serverVars, sessionFile, now>>

NextRetry == RetryBegin \/ RetryAttempt \/ RetryReport

SpecRetry == Init /\ [][NextRetry]_vars /\ WF_vars(RetryAttempt)

RetryFatal == {"Quota exceeded", "Permission denied", "Invalid API key"}

\* C19: within one call no attempt follows one that failed on quota,
\* permission or an invalid API key, or one that succeeded; other failures
\* are retried up to 3 attempts in all and the last error is then reported
\* as a failure of the call; at least one and at most 3 attempts are made,
\* and the call ends.
C19_RetryPolicy ==
    /\ [](probe.fn = "withRetry"
          => /\ Len(probe.made) <= 3
             /\ \A k \in 1..(Len(probe.made) - 1) :
                   probe.made[k] # "ok" /\ probe.made[k] \notin RetryFatal
             /\ probe.status = "running"
                => /\ Len(probe.made) < 3
                   /\ \A k \in 1..Len(probe.made) :
                         probe.made[k] # "ok" /\ probe.made[k] \notin RetryFatal
             /\ probe.status = "returned"
                => /\ Len(probe.made) >= 1
                   /\ probe.made[Len(probe.made)] = "ok"
                   /\ IsDefined(probe.report) => probe.report[1].success
             /\ probe.status = "thrown"
                => /\ Len(probe.made) >= 1
                   /\ probe.made[Len(probe.made)] # "ok"
                   /\ probe.made[Len(probe.made)] \in RetryFatal \/ Len(probe.made) = 3
                   /\ IsDefined(probe.report)
                      => /\ ~probe.report[1].success
                         /\ probe.report[1].error
                            = "Generation failed: " \o probe.made[Len(probe.made)]
                         /\ probe.report[1].attempts = Len(probe.made)
             /\ RetryEnded => RetryResult(probe) = withRetry(probe.script))
    /\ (RetryRunning ~> RetryEnded)

C19_Witness ==
    /\ probe.fn = "withRetry"
    /\ probe.status = "thrown"
    /\ probe.made = <<"fetch failed", "fetch failed", "fetch failed">>
    /\ IsDefined(probe.report)
    /\ probe.report[1].error = "Generation failed: fetch failed"

\* C20: when the generator's data does not start with the PNG signature,
\* nothing is written to the output location, the call returns a failure
\* that says so, and every Session is what it was before the call resumed.
C20_NonPngNeverSaved ==
    [][\A b \in ServiceBehaviours :
          (/\ ev'.kind = "result"
           /\ b.tried.ok /\ b.data # NoImage
           /\ \E k \in 1..8 : Len(b.data) < k \/ b.data[k] # PNG_SIGNATURE[k]
           /\ Complete(ev'.call[1], b))
          => /\ ev'.saved = Undefined
             /\ ev'.outcome = "failed"
             /\ ev'.isError
             /\ Includes(ev'.text, "not a valid PNG image")
             /\ last' = last]_vars

C20_Witness ==
    /\ ev.kind = "result" /\ ev.tool = "refine_image"
    /\ ev.outcome = "failed"
    /\ Includes(ev.text, "not a valid PNG image")
    /\ ev.saved = Undefined
    /\ IsDefined(last[ev.disp])

(***************************************************************************)
(* Startup under any environment, then plain requests (SpecStartup).       *)
(***************************************************************************)
StartupRequests == {r \in HttpRequests : r.path \notin {"/mcp", "/messages", "/sse"}}

NextStartup ==
    \/ StartHttpServerAnyEnv
    \/ Healthz(StartupRequests)
    \/ Unauthorized(StartupRequests)
    \/ NotFound(StartupRequests)
    \/ FilesGet(StartupRequests)

SpecStartup == Init /\ [][NextStartup]_vars

\* The environment cannot start the HTTP server: no API key, token mode
\* without a token, OIDC mode without an issuer, or a failed discovery.
Misconfigured(env, discovery) ==
    \/ env.GEMINI_API_KEY \in {Undefined, Some("")} /\ env.GOOGLE_API_KEY = Undefined
    \/ env.MCP_AUTH_MODE = Undefined /\ env.MCP_AUTH_TOKEN = Undefined
    \/ env.MCP_AUTH_MODE = Some("oidc") /\ env.OIDC_ISSUER \in {Undefined, Some("  ")}
    \/ env.MCP_AUTH_MODE = Some("oidc") /\ discovery # "ok"

\* C21: the HTTP server listens only when the API key is present and the
\* verifier was built; a missing key, token mode without a token, OIDC mode
\* without an issuer and a failed discovery each end the process with a
\* non-zero exit code, without listening and without serving a request.
C21_StartupChecksFirst ==
    probe.fn = "startHttpServer"
    => IF Misconfigured(probe.env, probe.discovery)
       THEN /\ phase = "exited"
            /\ IsDefined(exitCode) /\ exitCode[1] # 0
            /\ ~listening
            /\ ev.kind = "fatal"
       ELSE /\ phase = "serving"
            /\ listening
            /\ verifier = VerifierFromEnv(probe.env, TRUE)[1]

C21_Witness ==
    /\ probe.fn = "startHttpServer"
    /\ probe.env.MCP_AUTH_MODE = Some("oidc")
    /\ probe.env.OIDC_ISSUER = Some("https://issuer.example")
    /\ probe.env.GOOGLE_API_KEY = Some("key")
    /\ probe.discovery = "no jwks_uri"
    /\ phase = "exited" /\ exitCode = Some(1)

(***************************************************************************)
(* proxy.ts (SpecProxy): a stdio server whose two tools forward to the     *)
(* remote server.  A JavaScript value the remote client hands back is a    *)
(* record: its type, whether it has a content array and a toolResult, and  *)
(* what those hold.  probe.calls lists the local calls with their results. *)
(***************************************************************************)
\* The proxy forwards at most MaxProxyCalls calls.
MaxProxyCalls == 2

JsValue(js, contentIsArray, content, isError, hasToolResult, toolResult) ==
    [js |-> js, contentIsArray |-> contentIsArray, content |-> content,
     isError |-> isError, hasToolResult |-> hasToolResult, toolResult |-> toolResult]

TextItem(text) == [type |-> "text", text |-> text]

\* What client.callTool resolves to.
RemoteValues ==
    {JsValue("object", TRUE, <<TextItem("Generated image saved to: /data/out/a.png")>>,
             FALSE, FALSE, ""),
     JsValue("object", TRUE, <<TextItem(NO_PREVIOUS_IMAGE)>>, TRUE, FALSE, ""),
     JsValue("object", TRUE, <<>>, FALSE, FALSE, ""),
     JsValue("object", FALSE, <<>>, FALSE, TRUE, "done"),
     JsValue("object", FALSE, <<>>, FALSE, FALSE, ""),
     JsValue("null", FALSE, <<>>, FALSE, FALSE, ""),
     JsValue("string", FALSE, <<>>, FALSE, FALSE, "oops")}

\* What the remote call does: resolve to a value, or reject with an Error
\* or with something else.
RemoteOutcomes ==
    {[kind |-> "resolved", value |-> v, isErrorObject |-> FALSE, message |-> ""] :
        v \in RemoteValues}
    \cup {[kind |-> "rejected", value |-> JsValue("null", FALSE, <<>>, FALSE, FALSE, ""),
           isErrorObject |-> e, message |-> m] :
            e \in BOOLEAN, m \in {"fetch failed", "HTTP 401"}}

\* JSON.stringify of a string without characters to escape.
JsonStringify(s) == "\"" \o s \o "\""

\* String(value)
JsString(v) ==
    IF v.js = "object" THEN "[object Object]"
    ELSE IF v.js = "null" THEN "null"
    ELSE v.toolResult

ErrorResult(text) == JsValue("object", TRUE, <<TextItem(text)>>, TRUE, FALSE, "")

\* Mutation of normalizeCallToolResult: whatever the remote returned is
\* passed on.
normalizeCallToolResultAsIs(result) == result

normalizeCallToolResult(result) ==
    IF result.js = "object" /\ result.contentIsArray THEN result
    ELSE ErrorResult(IF result.js = "object" /\ result.hasToolResult
                     THEN JsonStringify(result.toolResult)
                     ELSE JsString(result))

\* The handler of either tool once client.callTool has settled.
proxyHandler(outcome) ==
    IF outcome.kind = "resolved"
    THEN [status |-> "returned", result |-> normalizeCallToolResult(outcome.value)]
    ELSE [status |-> "returned", result |-> ErrorResult("Proxy error: " \o outcome.message)]

ProxyCalls == IF probe.fn = "proxy" THEN probe.calls ELSE <<>>

NotForwarded == JsValue("undefined", FALSE, <<>>, FALSE, FALSE, "")

\* A local tool call arrives and is forwarded to the remote server.
ProxyCall ==
    /\ Len(ProxyCalls) < MaxProxyCalls
    /\ \E tool \in {"generate_image", "refine_image"} :
          probe' = [fn |-> "proxy",
                    calls |-> Append(ProxyCalls,
                                     [tool |-> tool, status |-> "pending",
                                      remote |-> Undefined, result |-> NotForwarded])]
    /\ UNCHANGED <<serverVars, sessionFile, now>>

\* client.callTool settles for one of the forwarded calls.
ProxySettles ==
    /\ probe.fn = "proxy"
    /\ \E k \in 1..Len(probe.calls), outcome \in RemoteOutcomes :
          /\ probe.calls[k].status = "pending"
          /\ probe' = [probe EXCEPT !.calls[k] =
                          [tool |-> @.tool, status |-> proxyHandler(outcome).status,
                           remote |-> Some(outcome),
                           result |-> proxyHandler(outcome).result]]
    /\ UNCHANGED <<serverVars, sessionFile, now>>

NextProxy == ProxyCall \/ ProxySettles

SpecProxy == Init /\ [][NextProxy]_vars

\* C22: every local call of the proxy that the remote call has settled for
\* has returned a result (never thrown): the remote result itself when it
\* is an object with a content array, otherwise a result flagged isError
\* that wraps it, and a result flagged isError whose text starts with
\* "Proxy error" when the remote call threw; the result depends on nothing
\* but what the remote call did.
C22_ProxyReturnsOneResult ==
    probe.fn = "proxy"
    => \A k \in 1..Len(probe.calls) :
          LET c == probe.calls[k]
          IN  IF c.status = "pending" THEN c.remote = Undefined
              ELSE /\ c.status = "returned"
                   /\ IsDefined(c.remote)
                   /\ c.result.js = "object" /\ c.result.contentIsArray
                   /\ (c.remote[1].kind = "resolved" /\ c.remote[1].value.js = "object"
                       /\ c.remote[1].value.contentIsArray)
                      => c.result = c.remote[1].value
                   /\ (c.remote[1].kind = "resolved"
                       /\ ~(c.remote[1].value.js = "object"
                            /\ c.remote[1].value.contentIsArray))
                      => /\ c.result.isError
                         /\ Len(c.result.content) = 1
                         /\ c.result.content[1].text
                            \in {"\"done\"", "[object Object]", "null", "oops"}
                   /\ c.remote[1].kind = "rejected"
                      => /\ c.result.isError
                         /\ c.result.content
                            = <<TextItem("Proxy error: " \o c.remote[1].message)>>
                   /\ \A j \in 1..Len(probe.calls) :
                         probe.calls[j].remote = c.remote
                         => probe.calls[j].result = c.result

C22_Witness ==
    /\ probe.fn = "proxy"
    /\ Len(probe.calls) = 2
    /\ probe.calls[1].status = "returned"
    /\ probe.calls[1].remote[1].kind = "rejected"
    /\ probe.calls[1].result.content = <<TextItem("Proxy error: fetch failed")>>
    /\ probe.calls[2].status = "returned"
    /\ probe.calls[2].remote[1].kind = "resolved"
    /\ probe.calls[2].remote[1].value.hasToolResult
    /\ probe.calls[2].result.isError

(***************************************************************************)
(* The generate_image handler up to its await, for many prompts and        *)
(* arguments (SpecAnalyze).  probe holds the arguments, what               *)
(* detectTypeWithConfidence and analyzePrompt returned for them, and what  *)
(* the handler did.                                                        *)
(***************************************************************************)
AnalyzePrompts ==
    {"Compare latency: 450ms before vs 120ms after",
     "Create a nice visual for my presentation",
     "Thumbnail of a square org chart",
     "Wide banner timeline for a slide",
     "Portrait preview of the roadmap",
     "before after pipeline",
     "before after and old new, pipeline journey",
     "hello",
     "data flow",
     "Org chart",
     "compare process steps vs workflow baseline",
     "hero banner vs chart graph"}

AnalyzeArgs ==
    {[prompt |-> p, output |-> Undefined, type |-> t, aspect_ratio |-> a, size |-> s] :
        p \in AnalyzePrompts, t \in {"auto", "chart", "matrix"},
        a \in {Undefined, Some("4:3")}, s \in {"1K", "2K", "4K"}}

\* The handler's analysis of one argument record.
AnalyzeAt(args) ==
    [detection |-> detectTypeWithConfidence(args.prompt),
     scores    |-> Scores(ToLowerCase(args.prompt)),
     analysis  |-> analyzePrompt(args.prompt, AnalysisOptions(args))]

\* The same for every argument record drawn (constant: evaluated once).
AnalyzeOf == [args \in AnalyzeArgs |-> AnalyzeAt(args)]

\* generate_image is called with args and runs up to its await.
AnalyzePrompt ==
    /\ \E args \in AnalyzeArgs, uuid8 \in Uuid8s :
       \E at \in {AnalyzeOf[args]} :
          probe' = [fn |-> "generate_image", args |-> args,
                    detection |-> at.detection, scores |-> at.scores,
                    analysis |-> at.analysis,
                    started |-> generateImageFrom(
                                    "stdio", args, at.analysis,
                                    [outputPath |-> OUTPUT_DIR \o "/image_" \o uuid8 \o ".png",
                                     filenameForUrl |-> Undefined])]
    /\ UNCHANGED <<serverVars, sessionFile, now>>

NextAnalyze == AnalyzePrompt

SpecAnalyze == Init /\ [][NextAnalyze]_vars

\* C23: the prompt "Compare latency: 450ms before vs 120ms after" with no
\* explicit type classifies as comparison, 16:9, with confidence high, and
\* generate_image proceeds without suggestions of alternative types.
C23_CompareLatencyIsHigh ==
    (/\ probe.fn = "generate_image"
     /\ probe.args.prompt = "Compare latency: 450ms before vs 120ms after"
     /\ probe.args.type = "auto" /\ probe.args.aspect_ratio = Undefined)
    => /\ probe.detection.type = "comparison"
       /\ probe.analysis.recommendedAspectRatio = "16:9"
       /\ probe.detection.confidence = "high"
       /\ probe.started.outcome = "pending"
       /\ probe.analysis.suggestions = <<>>

\* C24: the prompt "Create a nice visual for my presentation" with no
\* explicit type classifies with confidence low, generate_image answers
\* with the clarifying question, and the recommended size is 4K.
C24_NiceVisualIsLow ==
    (/\ probe.fn = "generate_image"
     /\ probe.args.prompt = "Create a nice visual for my presentation"
     /\ probe.args.type = "auto")
    => /\ probe.detection.confidence = "low"
       /\ probe.started.outcome = "clarify"
       /\ probe.analysis.recommendedSize = "4K"

\* C25: a size or aspect ratio the caller passes is the one recommended and
\* the one the generator is called with, whatever hint words the prompt has.
C25_ExplicitBeatsHints ==
    probe.fn = "generate_image"
    => /\ probe.args.size \in {"1K", "4K"}
          => /\ probe.analysis.recommendedSize = probe.args.size
             /\ probe.started.outcome = "pending"
                => probe.started.call[1].options.size = Some(probe.args.size)
       /\ IsDefined(probe.args.aspect_ratio)
          => /\ probe.analysis.recommendedAspectRatio = probe.args.aspect_ratio[1]
             /\ probe.started.outcome = "pending"
                => probe.started.call[1].options.aspectRatio = probe.args.aspect_ratio

\* C26: with an explicit type other than "auto", for every prompt,
\* analyzePrompt proceeds with that type, without a clarifying question and
\* without suggestions, and generate_image goes on to generate.
C26_ExplicitTypeProceeds ==
    (probe.fn = "generate_image" /\ probe.args.type # "auto")
    => /\ probe.analysis.shouldProceed
       /\ probe.analysis.recommendedType = probe.args.type
       /\ probe.analysis.clarifyingQuestion = Undefined
       /\ probe.analysis.suggestions = <<>>
       /\ probe.started.outcome = "pending"
       /\ probe.started.call[1].options.type = Some(probe.args.type)

C26_Witness ==
    /\ probe.fn = "generate_image"
    /\ probe.args.prompt = "hello" /\ probe.args.type = "matrix"
    /\ probe.detection.confidence = "low"
    /\ probe.started.outcome = "pending"

\* The trigger phrases of category dtype found in the lower-cased prompt.
MatchedPhrases(lower, dtype) ==
    {TYPE_KEYWORDS[dtype][i] :
        i \in {j \in 1..Len(TYPE_KEYWORDS[dtype]) : Includes(lower, TYPE_KEYWORDS[dtype][j])}}

\* The number of words of a phrase: one more than its blanks.
WordsIn(phrase) == 1 + Cardinality({i \in 1..Len(phrase) : CharAt(phrase, i) = " "})

RECURSIVE TotalWords(_)
TotalWords(phrases) ==
    IF phrases = {} THEN 0
    ELSE LET p == CHOOSE x \in phrases : TRUE
         IN  WordsIn(p) + TotalWords(phrases \ {p})

\* C27: the score of each category is the number of words of its matched
\* trigger phrases, summed; so a category matching k phrases of several
\* words scores strictly more than one matching k phrases of one word.
C27_MultiWordOutscores ==
    probe.fn = "generate_image"
    => LET lower == ToLowerCase(probe.args.prompt)
       IN  \A i \in 1..Len(probe.scores) :
              /\ probe.scores[i].score
                 = TotalWords(MatchedPhrases(lower, probe.scores[i].type))
              /\ \A j \in 1..Len(probe.scores) :
                    LET a == MatchedPhrases(lower, probe.scores[i].type)
                        b == MatchedPhrases(lower, probe.scores[j].type)
                    IN  (/\ a # {} /\ Cardinality(a) = Cardinality(b)
                         /\ \A p \in a : WordsIn(p) > 1
                         /\ \A p \in b : WordsIn(p) = 1)
                        => probe.scores[i].score > probe.scores[j].score

C27_Witness ==
    /\ probe.fn = "generate_image"
    /\ probe.args.prompt = "before after and old new, pipeline journey"
    /\ MatchedPhrases(probe.args.prompt, "comparison") = {"before after", "old new"}
    /\ MatchedPhrases(probe.args.prompt, "flow") = {"pipeline", "journey"}
    /\ probe.scores[1] = [type |-> "comparison", score |-> 4]
    /\ probe.scores[2] = [type |-> "flow", score |-> 2]

\* C28: a call whose attempts all fail transiently makes 3 attempts and
\* waits 1 s, then 2 s, then 4 s.
C28_BackoffOneTwoFour ==
    (/\ RetryEnded
     /\ \A k \in 1..Len(probe.made) : probe.made[k] = "fetch failed")
    => /\ Len(probe.made) = 3
       /\ probe.delays = <<1000, 2000, 4000>>

\* C29: when a generate_image completed on a dispatcher while a
\* refine_image of the same dispatcher was suspended (the Session is no
\* longer the one the refine read, and holds a generated prompt), the
\* Session stored by the successful refine is derived from the Session the
\* refine read at its start: that prompt plus the refinement text, and that
\* Session's category, aspect ratio and size.
C29_RefineStoresWhatItRead ==
    [][(/\ ev'.kind = "result" /\ ev'.tool = "refine_image" /\ ev'.outcome = "ok"
        /\ IsDefined(last[ev'.disp])
        /\ last[ev'.disp][1].lastPrompt # ev'.call[1].prompt
        /\ ~Includes(last[ev'.disp][1].lastPrompt, REFINEMENT_MARK))
       => LET call   == ev'.call[1]
              stored == last'[ev'.disp][1]
          IN  /\ stored.lastPrompt = call.prompt \o REFINEMENT_MARK \o call.refinement
              /\ Some(stored.lastType) = call.options.type
              /\ stored.aspectRatio = call.options.aspectRatio
              /\ stored.size = call.options.size]_vars

\* C30: an accepted POST /mcp initialize without a session id builds a new
\* dispatcher whose Session is absent and registers its transport under an
\* id not used before; a later /mcp request with that id is handled by that
\* transport and its dispatcher, so a refine_image sent under the id reads
\* the Session that a generate_image sent under the same id has written.
C30_SessionIdReachesItsDispatcher ==
    [][/\ (/\ ev'.kind = "http" /\ ev'.path = "/mcp" /\ ev'.sessionId = ""
           /\ ev'.status = 200)
          => /\ ev'.disp # ""
             /\ ev'.disp \notin DOMAIN transports \cup DOMAIN last \cup closed
             /\ transports'[ev'.disp] = [kind |-> "streamable", sessionId |-> ev'.disp]
             /\ last'[ev'.disp] = Undefined
             /\ \A k \in DOMAIN transports : transports'[k] = transports[k]
             /\ \A k \in DOMAIN last : last'[k] = last[k]
       /\ (/\ ev'.kind = "http" /\ ev'.path = "/mcp" /\ ev'.sessionId # ""
           /\ ev'.sessionId \in DOMAIN transports /\ ev'.verified = "ok")
          => /\ ev'.handler = "transport"
             /\ ev'.disp = ev'.sessionId
             /\ IsDefined(ev'.call) => ev'.call[1].disp = ev'.sessionId
             /\ (ev'.tool = "refine_image" /\ IsDefined(last[ev'.sessionId]))
                => /\ ev'.outcome = "pending"
                   /\ ev'.call[1].prompt = last[ev'.sessionId][1].lastPrompt
                   /\ ev'.call[1].outputPath # last[ev'.sessionId][1].lastOutputPath
       /\ \A d \in DOMAIN last :
             last'[d] # last[d]
             => /\ ev'.kind = "result" /\ ev'.outcome = "ok"
                /\ ev'.call[1].disp = d
                /\ ev'.tool = "generate_image"
                   => last'[d][1].lastPrompt = ev'.call[1].prompt]_vars

\* C30 happens: on the second session a refine_image has read the Session
\* its generate_image wrote, while the first session holds another one.
C30_Witness ==
    /\ ev.kind = "http" /\ ev.tool = "refine_image" /\ ev.outcome = "pending"
    /\ ev.sessionId = IdPool[2]
    /\ IsDefined(last[IdPool[1]]) /\ IsDefined(last[IdPool[2]])
    /\ last[IdPool[1]][1].lastPrompt # last[IdPool[2]][1].lastPrompt
    /\ ev.call[1].prompt = last[IdPool[2]][1].lastPrompt

(***************************************************************************)
(* The /mcp and /messages handlers facing requests they refuse, next to    *)
(* sessions that hold a Session: authenticated clients open Streamable     *)
(* HTTP and event-stream sessions, call the tools, and also present ids    *)
(* that are not registered, handshakes that are malformed, and messages    *)
(* for transports of the other kind.                                       *)
(***************************************************************************)
RejectToolCalls ==
    {[tool |-> "generate_image", args |-> a] : a \in {x \in GenerateArgs : x.type # "auto"}}
    \cup {[tool |-> "refine_image", args |-> a] : a \in RefineArgs}

RejectRequests ==
    {[method |-> m, path |-> "/mcp", cred |-> ValidCredential, sid |-> s, body |-> b] :
        m \in {"GET", "POST", "DELETE"}, s \in PresentedIds, b \in ProtocolBodies}
    \cup {[method |-> "POST", path |-> "/mcp", cred |-> ValidCredential, sid |-> s,
            body |-> [kind |-> "tools/call", call |-> Some(tc)]] :
            s \in SessionIds, tc \in RejectToolCalls}
    \cup {[method |-> "POST", path |-> "/messages", cred |-> ValidCredential, sid |-> s,
            body |-> PingBody] : s \in PresentedIds}
    \cup {[method |-> "GET", path |-> "/sse", cred |-> ValidCredential, sid |-> "",
            body |-> PingBody]}

NextReject ==
    \/ StartHttpServer
    \/ McpInitialize(RejectRequests)
    \/ McpExisting(RejectRequests)
    \/ McpMismatch(RejectRequests)
    \/ McpInvalid(RejectRequests)
    \/ SseConnect(RejectRequests)
    \/ MessagesPost(RejectRequests)
    \/ CompleteCall
    \/ TransportCloses

SpecReject == Init /\ [][NextReject]_vars

\* C31: a /mcp request with an id that is not registered (an initialize
\* body included), a /mcp request without an id that is not a POST
\* initialize, and a /messages request whose sessionId is not a registered
\* event-stream transport are answered 400; the step creates no dispatcher
\* and leaves the registry, every Session and every suspended call as they
\* were.
C31_BadRequestsChangeNothing ==
    [][(/\ ev'.kind = "http" /\ ev'.verified = "ok"
        /\ \/ /\ ev'.path = "/mcp" /\ ev'.sessionId # ""
              /\ ev'.sessionId \notin DOMAIN transports
           \/ /\ ev'.path = "/mcp" /\ ev'.sessionId = ""
              /\ ~(ev'.method = "POST" /\ ev'.body = "initialize")
           \/ /\ ev'.path = "/messages" /\ ev'.method = "POST"
              /\ ~(/\ ev'.sessionId \in DOMAIN transports
                   /\ transports[ev'.sessionId].kind = "sse"))
       => /\ ev'.status = 400
          /\ ev'.disp = "" /\ ev'.tool = ""
          /\ created' = created
          /\ transports' = transports
          /\ last' = last
          /\ elapsed' = elapsed
          /\ calls' = calls
          /\ closed' = closed]_vars

\* C31 happens: an initialize that carries an unregistered id was refused
\* while a registered session holds a Session.
C31_Witness ==
    /\ ev.kind = "http" /\ ev.path = "/mcp" /\ ev.status = 400
    /\ ev.body = "initialize" /\ ev.method = "POST"
    /\ ev.sessionId # "" /\ ev.sessionId \notin DOMAIN transports
    /\ \E d \in DOMAIN transports : IsDefined(last[d])

\* The top score of a score table, the position that holds it first, and
\* whether another category scores above zero and within 70% of it.
TopScoreOf(scores) ==
    CHOOSE t \in {scores[i].score : i \in DOMAIN scores} :
        \A i \in DOMAIN scores : scores[i].score <= t

RunnerUpScores(scores) ==
    LET top == CHOOSE i \in DOMAIN scores :
                   /\ scores[i].score = TopScoreOf(scores)
                   /\ \A j \in DOMAIN scores : scores[j].score = TopScoreOf(scores) => i <= j
    IN  {scores[i].score : i \in DOMAIN scores \ {top}} \ {0}

CompetitionIn(scores) ==
    \E s \in RunnerUpScores(scores) :
        /\ \A x \in RunnerUpScores(scores) : x <= s
        /\ 10 * s >= 7 * TopScoreOf(scores)

\* C32: with t the top score and competition a runner-up within 70% of it:
\* no score above zero gives "visualization", confidence low, and a question
\* that lists every category; otherwise confidence is high iff t >= 3
\* without competition, else medium iff t >= 2 or there is no competition,
\* else low.  Without a type override, medium proceeds with suggestions that
\* name the alternatives and low answers with the clarifying question.
C32_ConfidenceFromScores ==
    probe.fn = "generate_image"
    => LET t    == TopScoreOf(probe.scores)
           comp == CompetitionIn(probe.scores)
           d    == probe.detection
           a    == probe.analysis
       IN  /\ t = 0
              => /\ d.type = "visualization" /\ d.confidence = "low"
                 /\ probe.args.type = "auto"
                    => /\ IsDefined(a.clarifyingQuestion)
                       /\ \A i \in 1..Len(DIAGRAM_ORDER) :
                             Includes(a.clarifyingQuestion[1],
                                      "\n- " \o DIAGRAM_ORDER[i] \o ": ")
           /\ t > 0
              => d.confidence = IF t >= 3 /\ ~comp THEN "high"
                                ELSE IF t >= 2 \/ ~comp THEN "medium"
                                ELSE "low"
           /\ (d.confidence = "high" /\ probe.args.type = "auto")
              => /\ a.shouldProceed /\ probe.started.outcome = "pending"
                 /\ a.suggestions = <<>>
           /\ (d.confidence = "medium" /\ probe.args.type = "auto")
              => /\ a.shouldProceed /\ probe.started.outcome = "pending"
                 /\ a.clarifyingQuestion = Undefined
                 /\ Len(a.suggestions) = 1 + Len(d.alternativeTypes)
                 /\ \A i \in 1..Len(d.alternativeTypes) :
                       a.suggestions[i + 1] = "Alternative: " \o d.alternativeTypes[i]
           /\ (d.confidence = "low" /\ probe.args.type = "auto")
              => /\ ~a.shouldProceed /\ IsDefined(a.clarifyingQuestion)
                 /\ probe.started.outcome = "clarify"
                 /\ probe.started.text = a.clarifyingQuestion[1]

\* C32 happens: a top score of 3 or more with a runner-up within 70% of it
\* classified medium, and the call went ahead with its alternatives named.
C32_Witness ==
    /\ probe.fn = "generate_image" /\ probe.args.type = "auto"
    /\ TopScoreOf(probe.scores) >= 3 /\ CompetitionIn(probe.scores)
    /\ probe.detection.confidence = "medium"
    /\ Len(probe.analysis.suggestions) > 1
    /\ probe.started.outcome = "pending"

\* The order in which claim C33 lists the categories.
StatedOrder ==
    <<"comparison", "flow", "architecture", "timeline", "hierarchy",
      "matrix", "chart", "hero", "visualization">>

StatedRank(type) == CHOOSE i \in 1..Len(StatedOrder) : StatedOrder[i] = type

ScoreIn(scores, type) ==
    scores[CHOOSE i \in DOMAIN scores : scores[i].type = type].score

\* a is ranked before b: a higher score, or the same score and an earlier
\* place in the stated order.
RankedBefore(scores, a, b) ==
    \/ ScoreIn(scores, a) > ScoreIn(scores, b)
    \/ /\ ScoreIn(scores, a) = ScoreIn(scores, b)
       /\ StatedRank(a) < StatedRank(b)

\* C33: categories are ranked by score descending and, among equal scores,
\* in the order comparison, flow, architecture, timeline, hierarchy, matrix,
\* chart, hero, visualization: the chosen category is ranked before every
\* other category that scored, and the alternatives are the next three of
\* that ranking, in its order.
C33_TiesByMappingOrder ==
    (probe.fn = "generate_image" /\ TopScoreOf(probe.scores) > 0)
    => LET scored == {StatedOrder[i] : i \in 1..Len(StatedOrder)}
                     \cap {probe.scores[i].type : i \in {j \in DOMAIN probe.scores :
                                                            probe.scores[j].score > 0}}
           ranked == <<probe.detection.type>> \o probe.detection.alternativeTypes
           listed == {ranked[i] : i \in 1..Len(ranked)}
       IN  /\ listed \subseteq scored
           /\ Len(ranked) = IF Cardinality(scored) < 4 THEN Cardinality(scored) ELSE 4
           /\ \A i \in 1..(Len(ranked) - 1) :
                 RankedBefore(probe.scores, ranked[i], ranked[i + 1])
           /\ \A c \in scored \ listed :
                 RankedBefore(probe.scores, ranked[Len(ranked)], c)

\* C33 happens: chart and hero tie for the top score and chart is chosen,
\* hero being the first alternative, ahead of a lower score.
C33_Witness ==
    /\ probe.fn = "generate_image"
    /\ ScoreIn(probe.scores, "chart") = TopScoreOf(probe.scores)
    /\ ScoreIn(probe.scores, "hero") = TopScoreOf(probe.scores)
    /\ probe.detection.type = "chart"
    /\ Len(probe.detection.alternativeTypes) = 2
    /\ probe.detection.alternativeTypes[1] = "hero"

\* C34: the registry maps each id to one transport whose own session id is
\* the key; an id that is registered keeps its transport, and an id that
\* has left the registry never enters it again; a Streamable HTTP transport
\* enters the registry in the step that initialises its session and is not
\* in it once it has closed.
C34_RegistryIsConsistent ==
    /\ [](\A k \in DOMAIN transports :
             /\ transports[k].sessionId = k
             /\ transports[k].kind \in {"streamable", "sse"}
             /\ transports[k].kind = "streamable" => k \notin closed)
    /\ [][/\ \A k \in DOMAIN transports \cap DOMAIN transports' :
                transports'[k] = transports[k]
          /\ \A k \in DOMAIN transports' \ DOMAIN transports :
                /\ k \notin closed /\ k \notin DOMAIN last
                /\ ev'.kind = "http" /\ ev'.status = 200 /\ ev'.disp = k
                /\ ev'.sessionId = ""
                /\ transports'[k].kind = "streamable"
                   <=> (ev'.path = "/mcp" /\ ev'.method = "POST"
                        /\ ev'.body = "initialize")
                /\ transports'[k].kind = "sse"
                   <=> (ev'.path = "/sse" /\ ev'.method = "GET")]_vars

\* C34 happens: a Streamable HTTP session was ended with DELETE and has left
\* the registry, while an event-stream transport is still registered.
C34_Witness ==
    /\ ev.kind = "http" /\ ev.method = "DELETE" /\ ev.status = 200
    /\ ev.sessionId \in closed /\ ev.sessionId \notin DOMAIN transports
    /\ \E k \in DOMAIN transports : transports[k].kind = "sse"

(***************************************************************************)
(* The download reference of a generate_image response (SpecDownload):     *)
(* the output location resolved for a hint, the artifact written there,    *)
(* the `Download:` line the handler adds, and the file that GET            *)
(* /files/:filename looks up for the name in that line.  Deployments: the  *)
(* HTTP server, and the stdio server with and without PUBLIC_BASE_URL.     *)
(***************************************************************************)
\* stdio.ts passes process.env.PUBLIC_BASE_URL on.
StdioPublicOptions ==
    [StdioServerOptions EXCEPT !.publicBaseUrl = Some("https://img.example.com/")]

DeployOptions == {HttpServerOptions, StdioServerOptions, StdioPublicOptions}

\* mcp.ts normalizeBaseUrl.
normalizeBaseUrl(baseUrl) ==
    IF EndsWith(baseUrl, "/") THEN SubSeq(baseUrl, 1, Len(baseUrl) - 1) ELSE baseUrl

\* Characters encodeURIComponent leaves as they are.
URI_UNRESERVED ==
    "abcdefghijklmnopqrstuvwxyzABCDEFGHIJKLMNOPQRSTUVWXYZ0123456789-_.!~*'()"

\* The escapes of the other characters that occur in the names of the model.
URI_ESCAPES == [c \in {" ", "/", ":", ">"} |->
                  IF c = " " THEN "%20" ELSE IF c = "/" THEN "%2F"
                  ELSE IF c = ":" THEN "%3A" ELSE "%3E"]

RECURSIVE encodeURIComponent(_)
encodeURIComponent(s) ==
    IF Len(s) = 0 THEN ""
    ELSE IF Len(s) = 1
    THEN (IF Includes(URI_UNRESERVED, s) THEN s ELSE URI_ESCAPES[s])
    ELSE encodeURIComponent(SubSeq(s, 1, Len(s) \div 2))
         \o encodeURIComponent(SubSeq(s, Len(s) \div 2 + 1, Len(s)))

\* Express decodes a route parameter with decodeURIComponent.
RECURSIVE decodeURIComponent(_)
decodeURIComponent(s) ==
    IF Len(s) = 0 THEN ""
    ELSE IF CharAt(s, 1) = "%" /\ Len(s) >= 3
    THEN (CHOOSE c \in DOMAIN URI_ESCAPES : URI_ESCAPES[c] = SubSeq(s, 1, 3))
         \o decodeURIComponent(SubSeq(s, 4, Len(s)))
    ELSE CharAt(s, 1) \o decodeURIComponent(SubSeq(s, 2, Len(s)))

\* The `Download:` reference of the generate_image handler (mcp.ts:264-266):
\* the path after the base URL, or nothing.
downloadReference(opts, resolved, savedPath) ==
    IF Truthy(opts.publicBaseUrl) /\ Truthy(resolved.filenameForUrl)
       /\ isPathInsideRoot(opts.outputDir, savedPath)
    THEN Some(normalizeBaseUrl(opts.publicBaseUrl[1]) \o "/files/"
              \o encodeURIComponent(resolved.filenameForUrl[1]))
    ELSE Undefined

\* app.get("/files/:filename") for a reference: the parameter, and the path
\* the handler looks up (path.resolve(outputDir, filename)).
servedFor(opts, reference) ==
    LET prefix   == normalizeBaseUrl(opts.publicBaseUrl[1]) \o "/files/"
        filename == decodeURIComponent(SubSeq(reference, Len(prefix) + 1, Len(reference)))
    IN  [filename |-> filename,
         flat     |-> filename = Basename(filename),
         fullPath |-> PathResolve(opts.outputDir, filename)]

\* One successful generate_image under opts with an output hint.
downloadOf(opts, output, prompt, uuid8) ==
    LET resolved  == resolveOutputPath(opts.outputDir, output, prompt, opts, uuid8)
        savedPath == PathResolve(opts.outputDir, resolved.outputPath)
        reference == downloadReference(opts, resolved, savedPath)
    IN  [resolved  |-> resolved,
         saved     |-> savedPath,
         reference |-> reference,
         served    |-> IF IsDefined(reference) THEN Some(servedFor(opts, reference[1]))
                       ELSE Undefined]

\* The same for every deployment, hint and prompt (constant: evaluated once).
DownloadOf ==
    [opts \in DeployOptions |-> [output \in OutputHints |-> [prompt \in HintPrompts |->
        [u \in Uuid8s |-> downloadOf(opts, output, prompt, u)]]]]

GenerateDownload ==
    /\ \E opts \in DeployOptions, output \in OutputHints, prompt \in HintPrompts,
          u \in Uuid8s :
       \E d \in {DownloadOf[opts][output][prompt][u]} :
          probe' = [fn |-> "download", opts |-> opts, output |-> output,
                    prompt |-> prompt, resolved |-> d.resolved, saved |-> d.saved,
                    reference |-> d.reference, served |-> d.served]
    /\ UNCHANGED <<serverVars, sessionFile, now>>

NextDownload == GenerateDownload

SpecDownload == Init /\ [][NextDownload]_vars

\* C35: when the response of generate_image has a download reference
\* <publicBaseUrl>/files/<name>, the file endpoint resolves <name> to the
\* artifact the call wrote: outputDir/<name> is the saved output path.
C35_DownloadNamesTheArtifact ==
    (probe.fn = "download" /\ IsDefined(probe.reference))
    => /\ probe.served[1].flat
       /\ probe.served[1].fullPath = probe.saved

\* The tokens a verifier accepts: the configured ones in static-token mode,
\* the ones jwtVerify accepts in OIDC mode.
AcceptedTokens(env, mode) == IF mode = "token" THEN ConfiguredTokens(env) ELSE ValidJwts

\* The Bearer header carries exactly t.
HeaderCarries(req, t) ==
    \E scheme \in {"Bearer", "bearer"}, sp \in {" ", "   "} :
        req.authorization = Some(scheme \o sp \o t)

\* C36: with query tokens allowed, a request that has a Bearer header is
\* judged by the header alone: it is allowed exactly when the header
\* carries an accepted token, whatever ?token= holds; a request is allowed
\* on its ?token= only when it has no Bearer header.
C36_HeaderBeforeQuery ==
    (/\ probe.fn = "verifyRequest"
     /\ probe.verifier[1].mode \in {"token", "oidc"}
     /\ probe.verifier[1].allowQueryToken)
    => LET accepted == AcceptedTokens(probe.env, probe.verifier[1].mode)
           byHeader == \E t \in accepted : HeaderCarries(probe.req, t)
       IN  /\ IsBearerHeader(probe.req.authorization)
              => /\ probe.result.ok <=> byHeader
                 /\ ~byHeader => probe.result.status = 401
           /\ (probe.result.ok /\ ~byHeader)
              => /\ ~IsBearerHeader(probe.req.authorization)
                 /\ IsDefined(probe.req.queryToken)
                 /\ probe.req.queryToken[1] \in accepted

\* C36 happens: a wrong token in the header and a configured one in ?token=,
\* query tokens allowed, and the request was denied.
C36_Witness ==
    /\ probe.fn = "verifyRequest"
    /\ probe.verifier[1].mode = "token" /\ probe.verifier[1].allowQueryToken
    /\ probe.req.authorization = Some("Bearer s3cre")
    /\ probe.req.queryToken = Some("s3cret")
    /\ ~probe.result.ok /\ probe.result.status = 401

\* The values of MCP_AUTH_MODE in the model that spell none, off or disabled
\* (in any case, blanks around them), and those that spell the OIDC mode.
NoneSpellings == {"none", " OFF ", "Disabled"}

OidcSpellings == {"oidc"}

\* A request without any credential.
Anonymous(req) == req.authorization = Undefined /\ req.queryToken \in {Undefined, Some("")}

\* C37: the verifier has mode "none" only when MCP_AUTH_MODE spells none,
\* off or disabled; an unset or unrecognised value selects static-token
\* mode, whose construction fails when no token is configured; under no
\* other value is a request without a credential allowed.
C37_AuthOffOnlyWhenAsked ==
    probe.fn \in {"createVerifier", "verifyRequest"}
    => LET raw     == probe.env.MCP_AUTH_MODE
           asked   == IsDefined(raw) /\ raw[1] \in NoneSpellings
           oidc    == IsDefined(raw) /\ raw[1] \in OidcSpellings
       IN  /\ (IsDefined(probe.verifier) /\ probe.verifier[1].mode = "none") <=> asked
           /\ (~asked /\ ~oidc)
              => IF ConfiguredTokens(probe.env) = {}
                 THEN probe.verifier = Undefined
                 ELSE /\ IsDefined(probe.verifier)
                      /\ probe.verifier[1].mode = "token"
                      /\ probe.verifier[1].tokens = ConfiguredTokens(probe.env)
           /\ (~asked /\ probe.fn = "verifyRequest" /\ Anonymous(probe.req))
              => ~probe.result.ok /\ probe.result.status = 401

\* C37 happens: MCP_AUTH_MODE is "false", a token is configured, and a
\* request without a credential was denied by the static-token verifier.
C37_Witness ==
    /\ probe.fn = "verifyRequest"
    /\ probe.env.MCP_AUTH_MODE = Some("false")
    /\ probe.verifier[1].mode = "token"
    /\ Anonymous(probe.req)
    /\ ~probe.result.ok /\ probe.result.status = 401


(***************************************************************************)
(* index.ts: the file-backed stdio server.  Its two tool handlers keep the *)
(* Session in SESSION_FILE through utils/session.ts.  A handler runs to    *)
(* its end in one step: the process serves one request at a time over      *)
(* stdio and nothing else writes the file.                                 *)
(***************************************************************************)
\* How many refinements the model lets one chain grow to.
MaxFileChain == 3

FileGenerateArgs ==
    {[prompt |-> "Org chart", output |-> Some("team"), type |-> "hierarchy",
      aspect_ratio |-> Some("1:1"), size |-> "4K"],
     [prompt |-> "data flow", output |-> Undefined, type |-> "chart",
      aspect_ratio |-> Undefined, size |-> "1K"],
     [prompt |-> "data flow", output |-> Some("/tmp/out/flow.png"), type |-> "auto",
      aspect_ratio |-> Undefined, size |-> "2K"]}

\* index.ts generateFilename: the characters outside [a-z0-9\s] are removed,
\* not replaced.
generateFilename(prompt) ==
    LET kept  == ReplaceOutside(ToLowerCase(prompt), SLUG_CHARS \o WHITESPACE, "")
        words == Take(SelectSeq(SplitChar(kept, WHITESPACE), LAMBDA w : Len(w) > 2), 3)
    IN  (IF Join(words, "_") = "" THEN "image" ELSE Join(words, "_")) \o ".png"

\* index.ts resolveOutputPath(output, prompt).
resolveOutputPathInCwd(output, prompt) ==
    LET filename == IF IsDefined(output) THEN output[1] ELSE generateFilename(prompt)
    IN  IF IsAbsolute(filename) THEN filename ELSE PathResolve(CWD, filename)

\* index.ts refine handler: the output location of a refinement.
refinedPathBeside(lastOutput) ==
    PathJoin(Dirname(lastOutput),
             BasenameExt(lastOutput, Extname(lastOutput)) \o "_refined.png")

\* Mutation of refinedSession: the refine handler passes the composition of
\* the Session it loaded on to saveSession.
refinedSessionKeeping(session, refinement, outputPath) ==
    [lastPrompt  |-> session.lastPrompt \o REFINEMENT_MARK \o refinement,
     lastOutput  |-> outputPath,
     lastType    |-> session.lastType,
     aspectRatio |-> session.aspectRatio,
     size        |-> session.size]

\* The object the refine handler passes to saveSession: it has no
\* aspectRatio and no size property.
refinedSession(session, refinement, outputPath) ==
    [lastPrompt  |-> session.lastPrompt \o REFINEMENT_MARK \o refinement,
     lastOutput  |-> outputPath,
     lastType    |-> session.lastType,
     aspectRatio |-> Undefined,
     size        |-> Undefined]

\* The refinements the prompt of a stored Session records.
fileChainLength(session) == CountOccurrences(session.lastPrompt, REFINEMENT_MARK)

\* The composition of the generate_image call that wrote the first Session of
\* the chain the file now continues, as the last step recorded it.
OriginOf(p) == IF "origin" \in DOMAIN p THEN p.origin ELSE Undefined

\* generate_image of index.ts, given the service's behaviour b.
fileGenerate(a, b, file, t, origin) ==
    LET analysis   == analyzePrompt(a.prompt, AnalysisOptions(a))
        outputPath == resolveOutputPathInCwd(a.output, a.prompt)
        sent       == [type        |-> Some(analysis.recommendedType),
                       aspectRatio |-> Some(analysis.recommendedAspectRatio),
                       size        |-> Some(analysis.recommendedSize)]
        result     == generate(a.prompt, outputPath, sent, b.tried, b.data, b.fs)
    IN  IF AsksInsteadOfGenerating(analysis)
        THEN [file |-> file,
              probe |-> [fn |-> "generate_image", outcome |-> "clarify", isError |-> FALSE,
                         sent |-> Undefined, request |-> Undefined, chain |-> 0,
                         origin |-> origin]]
        ELSE IF ~result.success
        THEN [file |-> file,
              probe |-> [fn |-> "generate_image", outcome |-> "failed", isError |-> TRUE,
                         sent |-> Some(sent), request |-> Some(result.request), chain |-> 0,
                         origin |-> origin]]
        ELSE [file |-> saveSession([lastPrompt  |-> a.prompt,
                                    lastOutput  |-> result.outputPath[1],
                                    lastType    |-> analysis.recommendedType,
                                    aspectRatio |-> result.aspectRatio,
                                    size        |-> Some(analysis.recommendedSize)], t),
              probe |-> [fn |-> "generate_image", outcome |-> "ok", isError |-> FALSE,
                         sent |-> Some(sent), request |-> Some(result.request), chain |-> 0,
                         origin |-> Some([aspectRatio |-> result.aspectRatio[1],
                                          size        |-> analysis.recommendedSize])]]

\* refine_image of index.ts, given the service's behaviour b.
fileRefine(r, b, file, t, origin) ==
    LET loaded  == loadSession(file, t)
        session == loaded.session[1]
        sent    == [type        |-> Some(session.lastType),
                    aspectRatio |-> session.aspectRatio,
                    size        |-> session.size]
        result  == refine(session.lastPrompt, r.refinement,
                          refinedPathBeside(session.lastOutput), sent,
                          b.tried, b.data, b.fs)
    IN  IF ~IsDefined(loaded.session)
        THEN [file |-> loaded.file,
              probe |-> [fn |-> "refine_image", outcome |-> "noprior", isError |-> TRUE,
                         sent |-> Undefined, request |-> Undefined, chain |-> 0,
                         origin |-> Undefined]]
        ELSE IF ~result.success
        THEN [file |-> loaded.file,
              probe |-> [fn |-> "refine_image", outcome |-> "failed", isError |-> TRUE,
                         sent |-> Some(sent), request |-> Some(result.request),
                         chain |-> fileChainLength(session) + 1, origin |-> origin]]
        ELSE [file |-> saveSession(refinedSession(session, r.refinement,
                                                  result.outputPath[1]), t),
              probe |-> [fn |-> "refine_image", outcome |-> "ok", isError |-> FALSE,
                         sent |-> Some(sent), request |-> Some(result.request),
                         chain |-> fileChainLength(session) + 1, origin |-> origin]]

FileGenerate ==
    /\ \E a \in FileGenerateArgs, b \in ServiceBehaviours :
          \E done \in {fileGenerate(a, b, sessionFile, now, OriginOf(probe))} :
             /\ sessionFile' = done.file
             /\ probe' = done.probe
    /\ UNCHANGED <<serverVars, now>>

FileRefine ==
    /\ IsDefined(sessionFile) => fileChainLength(sessionFile[1]) < MaxFileChain
    /\ \E r \in RefineArgs, b \in ServiceBehaviours :
          \E done \in {fileRefine(r, b, sessionFile, now, OriginOf(probe))} :
             /\ sessionFile' = done.file
             /\ probe' = done.probe
    /\ UNCHANGED <<serverVars, now>>

\* Time passes between two requests: long enough for a stored Session to
\* expire.
FileIdle ==
    /\ now + TickMs <= ClockLimit
    /\ now' = now + TickMs
    /\ probe' = [fn |-> "idle", outcome |-> "", isError |-> FALSE, sent |-> Undefined,
                 request |-> Undefined, chain |-> 0, origin |-> OriginOf(probe)]
    /\ UNCHANGED <<serverVars, sessionFile>>

NextFile == FileGenerate \/ FileRefine \/ FileIdle

SpecFile == Init /\ [][NextFile]_vars

\* C38: every refine_image of a chain of successive successful refinements
\* is invoked with the aspect ratio and the resolution tier of the
\* generate_image call that started the chain, and the Session a successful
\* refine_image stores keeps both.
C38_RefineChainKeepsComposition ==
    (probe.fn = "refine_image" /\ IsDefined(probe.sent) /\ IsDefined(probe.origin))
        => /\ probe.request[1].aspectRatio = probe.origin[1].aspectRatio
           /\ probe.request[1].imageSize = probe.origin[1].size
           /\ probe.outcome = "ok"
                => /\ sessionFile[1].aspectRatio = Some(probe.origin[1].aspectRatio)
                   /\ sessionFile[1].size = Some(probe.origin[1].size)

\* The first refine_image of a chain is invoked with the composition of the
\* generate_image call before it.
FirstRefineKeepsComposition ==
    (probe.fn = "refine_image" /\ IsDefined(probe.sent) /\ probe.chain = 1)
        => /\ probe.request[1].aspectRatio = probe.origin[1].aspectRatio
           /\ probe.request[1].imageSize = probe.origin[1].size
=============================================================================
